---- MODULE Spec2Model ----
(***************************************************************************)
(* A model of the chat-to-Jira dispatcher of this repository.  The          *)
(* repository holds two revisions of the Django application:                *)
(*   backend/core              ("backend": typed envelopes, summaries,      *)
(*                              api_utils.retry_with_backoff)               *)
(*   jira_integration_app/core ("app": identity injection, scrum updates,   *)
(*                              custom client exceptions)                    *)
(* Both are modelled, operation by operation, from their source.            *)
(***************************************************************************)
EXTENDS Integers, Sequences, FiniteSets, TLC

VARIABLES
    revision,       \* which revision of the application is deployed
    profiles,       \* UserProfile table: user -> [exists, jira_user_id]
    conversation,   \* Conversation table, in insertion (timestamp) order
    inflight,       \* the chat request each worker thread is handling
    last,           \* what the last handled chat request did and answered
    rw,             \* a retry_with_backoff wrapper and the function it wraps
    scrum,          \* ScrumUpdate table, create_scrum_update calls, the clock
    jira            \* one call of a tracker client operation and its outcome

vars == <<revision, profiles, conversation, inflight, last, rw, scrum, jira>>

(***************************************************************************)
(* Python values                                                            *)
(***************************************************************************)
\* Python's None where a string is expected (a missing key, a null column).
None == "<None>"

\* A variant that takes only a missing value for false.
Falsy_missing_only(x) == x = None

\* `not x` for a value that is a string or None.
Falsy(x) == x = None \/ x = ""

\* A dict with string keys is a function from its keys; {} is the empty one.
EmptyDict == [k \in {} |-> None]

DictSet(d, k, v) == [q \in (DOMAIN d) \cup {k} |-> IF q = k THEN v ELSE d[q]]

Min(a, b) == IF a < b THEN a ELSE b

(***************************************************************************)
(* Bounds of the model                                                      *)
(***************************************************************************)
\* Largest max_retries a wrapper is built with (the code uses 2 and 3).
MaxRetries == 3
\* Longest scripted sequence of outcomes of a wrapped function.
MaxScriptLen == 3
\* Rows the Conversation table may hold before requests are no longer taken on.
MaxRows == 3

(***************************************************************************)
(* retry_with_backoff                                                       *)
(*                                                                          *)
(* A wrapped function is scripted like a mock with side_effect: its i-th    *)
(* call has outcome script[i], the last outcome repeating.  An outcome is   *)
(* [ok, value, exc]; an exception is [class, status_code, retry_after, id,  *)
(* msg], id telling one raised object from another, msg being str(e).       *)
(***************************************************************************)
NoRetryAfter == 0 - 1

\* Defaults of backend/core/api_utils.py retry_with_backoff and get_retry_after.
api_initial_delay == 1
api_max_delay == 10
api_backoff_factor == 2
openai_default_retry_after == 30
\* Defaults of backend/core/jira_integration.py retry_with_backoff.
jira_initial_delay == 1
jira_backoff_factor == 2
\* JIRAError.status_code of a rate-limited answer.
HTTP_429 == 429

NoExc ==
    [class |-> None, status_code |-> 0, retry_after |-> NoRetryAfter,
     id |-> 0, msg |-> None]

Outcome(script, i) == script[Min(i, Len(script))]

\* except (RequestException, JIRAError, OpenAIError): RateLimitError is an
\* OpenAIError.
api_utils_caught(e) ==
    e.class \in {"RequestException", "JIRAError", "OpenAIError", "RateLimitError"}

api_utils_is_rate_limit(e) ==
    \/ e.class = "RateLimitError"
    \/ (e.class = "JIRAError" /\ e.status_code = HTTP_429)

\* get_retry_after: the seconds to wait, NoRetryAfter for None.
get_retry_after(e) ==
    IF e.class = "RateLimitError"
    THEN (IF e.retry_after = NoRetryAfter
          THEN openai_default_retry_after ELSE e.retry_after)
    ELSE IF e.class = "JIRAError" /\ e.status_code = HTTP_429
         THEN e.retry_after
         ELSE NoRetryAfter

\* The result of one run of a wrapper: how it ended, the number of calls of
\* the wrapped function, the sleeps in order.  `final` is the call whose
\* value was returned (0 when the wrapper raised or returned None).
RunReturn(final, sleeps) ==
    [ended |-> "returned", final |-> final, exc |-> NoExc,
     calls |-> final, sleeps |-> sleeps]

RunRaise(e, calls, sleeps) ==
    [ended |-> "raised", final |-> 0, exc |-> e, calls |-> calls, sleeps |-> sleeps]

RunReturnNone(calls, sleeps) ==
    [ended |-> "returned_none", final |-> 0, exc |-> NoExc,
     calls |-> calls, sleeps |-> sleeps]

\* backend/core/api_utils.py: the for loop of wrapper, from iteration
\* `attempt` (0-based) on.
RECURSIVE api_utils_loop(_, _, _, _, _, _)
api_utils_loop(max_retries, script, attempt, delay, sleeps, last_exception) ==
    IF attempt >= max_retries
    THEN \* the loop is exhausted: raise last_exception (raise None is a TypeError)
         IF last_exception = NoExc
         THEN RunRaise([NoExc EXCEPT !.class = "TypeError"], attempt, sleeps)
         ELSE RunRaise(last_exception, attempt, sleeps)
    ELSE LET o == Outcome(script, attempt + 1)
             e == o.exc
             retry_after == get_retry_after(e)
         IN  IF o.ok THEN RunReturn(attempt + 1, sleeps)
             ELSE IF ~api_utils_caught(e) THEN RunRaise(e, attempt + 1, sleeps)
             ELSE IF api_utils_is_rate_limit(e)
                     /\ retry_after # NoRetryAfter /\ retry_after # 0
                  THEN \* time.sleep(retry_after); continue
                       api_utils_loop(max_retries, script, attempt + 1, delay,
                                      Append(sleeps, retry_after), e)
             ELSE IF attempt = max_retries - 1
                  THEN \* break, then raise last_exception
                       RunRaise(e, attempt + 1, sleeps)
             ELSE api_utils_loop(max_retries, script, attempt + 1,
                                 Min(delay * api_backoff_factor, api_max_delay),
                                 Append(sleeps, delay), e)

\* A variant that stops one attempt early.
api_utils_wrapper_short(max_retries, script) ==
    api_utils_loop(max_retries - 1, script, 0, api_initial_delay, <<>>, NoExc)

\* A variant that raises a new exception when the attempts are used up.
api_utils_wrapper_wrapping(max_retries, script) ==
    LET r == api_utils_loop(max_retries, script, 0, api_initial_delay, <<>>, NoExc)
    IN  IF r.ended = "raised" /\ r.calls = max_retries
        THEN [r EXCEPT !.exc = [NoExc EXCEPT !.class = "Exception"]]
        ELSE r

\* retry_with_backoff(max_retries)(func)() of backend/core/api_utils.py, with
\* the default initial_delay=1.0, max_delay=10.0, backoff_factor=2.0.
api_utils_wrapper(max_retries, script) ==
    api_utils_loop(max_retries, script, 0, api_initial_delay, <<>>, NoExc)

\* backend/core/jira_integration.py: the for loop of its own wrapper, which
\* catches every Exception.
RECURSIVE jira_retry_loop(_, _, _, _, _)
jira_retry_loop(max_retries, script, attempt, delay, sleeps) ==
    IF attempt >= max_retries
    THEN RunReturnNone(attempt, sleeps)
    ELSE LET o == Outcome(script, attempt + 1)
         IN  IF o.ok THEN RunReturn(attempt + 1, sleeps)
             ELSE IF attempt = max_retries - 1
                  THEN RunRaise(o.exc, attempt + 1, sleeps)
             ELSE jira_retry_loop(max_retries, script, attempt + 1,
                                  delay * jira_backoff_factor,
                                  Append(sleeps, delay))

\* retry_with_backoff(max_retries)(func)() of backend/core/jira_integration.py,
\* with the default initial_delay=1, backoff_factor=2.
jira_retry_wrapper(max_retries, script) ==
    jira_retry_loop(max_retries, script, 0, jira_initial_delay, <<>>)

(***************************************************************************)
(* Data of a chat request                                                   *)
(***************************************************************************)
Users == {"u1", "u2"}

\* request.data.get('message'): missing, empty, or a text.
Messages == {None, "", "hi"}

\* The UserProfile row of a user: none, one with jira_user_id NULL, or one
\* linked to a tracker account.
ProfileStates(u) ==
    { [exists |-> FALSE, jira_user_id |-> None],
      [exists |-> TRUE, jira_user_id |-> None],
      [exists |-> TRUE, jira_user_id |-> "acct-" \o u] }

\* A Conversation row.
Row(u, message, is_user_message) ==
    [user |-> u, message |-> message, is_user_message |-> is_user_message]

\* HTTP status codes the views answer with.
HTTP_200_OK == 200
HTTP_400_BAD_REQUEST == 400
HTTP_404_NOT_FOUND == 404
HTTP_500_INTERNAL_SERVER_ERROR == 500
\* status=None: the status_code attribute of a client error built without one.
StatusNone == 0

\* rest_framework Response(data, status=status): a status of None leaves the
\* response at the framework's default status code, 200.
Response(data, status) ==
    [body |-> data,
     status_code |-> IF status = StatusNone THEN HTTP_200_OK ELSE status]

\* The result of a tracker operation, and the dict a response carries.  The
\* fields of a response body the views never set are None / empty.
NoResult == [of |-> None, kwargs |-> EmptyDict]

Result(name, kwargs) == [of |-> name, kwargs |-> kwargs]

NoBody ==
    [type |-> None, content |-> None, summary |-> None, payload_key |-> None,
     result |-> NoResult, error |-> None, message |-> None]

ErrorBody(text) == [NoBody EXCEPT !.error = text]

TextEnvelope(content) == [NoBody EXCEPT !.type = "text", !.content = content]

TypedEnvelope(type, key, result, summary) ==
    [NoBody EXCEPT !.type = type, !.payload_key = key, !.result = result,
                   !.summary = summary]

\* a or b, for strings and None.
PyOr(a, b) == IF Falsy(a) THEN b ELSE a

(***************************************************************************)
(* The LLM and the classifier                                               *)
(***************************************************************************)
\* Operations the classifier is offered (FUNCTION_SPECS / function_specs), and
\* a name outside the menu.
BackendFunctions ==
    {"get_user_issues", "get_issue", "add_comment_to_issue",
     "update_issue_status", "create_issue", "get_all_statuses", "search_users"}

AppFunctions == BackendFunctions \ {"get_issue"}

CalledNames == BackendFunctions \cup {"delete_issue"}

\* Arguments naming exactly the required parameters of an operation.
FullArgs(name) ==
    CASE name = "get_user_issues" -> [jira_user_id |-> "acct-other"]
      [] name = "get_issue" -> [issue_key |-> "PROJ-1"]
      [] name = "add_comment_to_issue" -> [issue_key |-> "PROJ-1", comment |-> "c"]
      [] name = "update_issue_status" -> [issue_key |-> "PROJ-1", new_status |-> "Done"]
      [] name = "create_issue" ->
            [project_key |-> "PROJ", summary |-> "s", description |-> "d",
             issue_type |-> "Task"]
      [] name = "search_users" -> [query |-> "jo"]
      [] OTHER -> EmptyDict

\* The argument mappings the LLM is taken to produce for a structured call.
ArgChoices(name) ==
    {EmptyDict, FullArgs(name)}
        \cup (IF name = "get_user_issues"
              THEN {[status |-> "Open"], [jira_user_id |-> "acct-other", bogus |-> "x"]}
              ELSE {})

\* A reply of the completion API to the classifier: an error, a text, or a
\* function call whose arguments string evaluates to a dict or does not parse.
LLMReplies ==
    { [kind |-> "raise", content |-> None, name |-> None, parses |-> FALSE,
       arguments |-> EmptyDict],
      [kind |-> "text", content |-> "Hello!", name |-> None, parses |-> FALSE,
       arguments |-> EmptyDict],
      [kind |-> "call", content |-> None, name |-> "get_issue", parses |-> FALSE,
       arguments |-> EmptyDict] }
    \cup UNION { { [kind |-> "call", content |-> None, name |-> n,
                     parses |-> TRUE, arguments |-> a] : a \in ArgChoices(n) }
                 : n \in CalledNames }

\* What get_intent_and_parameters gives the view: a text response, a function
\* call, or an exception.
NoIntent ==
    [kind |-> "none", response |-> None, function_name |-> None,
     arguments |-> EmptyDict]

ResponseIntent(text) == [NoIntent EXCEPT !.kind = "response", !.response = text]

FunctionIntent(name, arguments) ==
    [NoIntent EXCEPT !.kind = "function", !.function_name = name,
                     !.arguments = arguments]

Ok(v) == [ok |-> TRUE, value |-> v, exc |-> NoExc]

Raise(v, class, msg) ==
    [ok |-> FALSE, value |-> v, exc |-> [NoExc EXCEPT !.class = class, !.msg = msg]]

\* max_retries of the decorated methods of the backend revision.
backend_intent_max_retries == 3
backend_summarize_max_retries == 2
backend_jira_max_retries == 3

\* backend OpenAIClient.get_intent_and_parameters, the decorated body: one
\* completion call, every exception re-raised as a plain Exception.
Backend_intent_body(reply) ==
    IF reply.kind = "raise"
    THEN Raise(NoIntent, "Exception",
               "An error occurred while processing your request with OpenAI.")
    ELSE IF reply.kind = "call"
    THEN IF reply.parses
         THEN Ok(FunctionIntent(reply.name, reply.arguments))
         ELSE Ok(ResponseIntent(
                 "I am sorry, I could not understand the response. Please try again."))
    ELSE Ok(ResponseIntent(reply.content))

\* A wrapped method run on scripted replies: the run of its wrapper and the
\* outcome it ends with.
Backend_get_intent_and_parameters(replies) ==
    LET script == [i \in 1..Len(replies) |-> Backend_intent_body(replies[i])]
        run == api_utils_wrapper(backend_intent_max_retries, script)
    IN  [run |-> run,
         intent |-> IF run.ended = "returned"
                    THEN Outcome(script, run.final).value ELSE NoIntent]

\* backend OpenAIClient.summarize_text, the decorated body.
Backend_summarize_body(reply) ==
    IF reply.kind = "raise"
    THEN Raise(None, "Exception",
               "An error occurred while processing your request with OpenAI.")
    ELSE Ok(reply.content)

Backend_summarize_text(replies) ==
    LET script == [i \in 1..Len(replies) |-> Backend_summarize_body(replies[i])]
        run == api_utils_wrapper(backend_summarize_max_retries, script)
    IN  [run |-> run,
         summary |-> IF run.ended = "returned"
                     THEN Outcome(script, run.final).value ELSE None]

\* The arguments string of a structured call that does not parse, and str(e)
\* of the SyntaxError eval() raises on it.
UnparseableArguments == "not a dict"
EvalErrText == "invalid syntax (<string>, line 1)"

\* app OpenAIClient.get_intent_and_parameters: one completion call, every
\* exception (the API's, or eval's on the arguments) re-raised as an
\* OpenAIClientError, whose status_code is None.  The completion message is
\* read with .get() and by key, so it is taken to be a mapping, as the
\* revision's tests build it.
App_get_intent_and_parameters(reply) ==
    IF reply.kind = "raise"
    THEN Raise(NoIntent, "OpenAIClientError", "OpenAI API error: api error")
    ELSE IF reply.kind = "call"
    THEN IF reply.parses
         THEN Ok(FunctionIntent(reply.name, reply.arguments))
         ELSE Raise(NoIntent, "OpenAIClientError", "Unexpected error: " \o EvalErrText)
    ELSE Ok(ResponseIntent(reply.content))

(***************************************************************************)
(* The tracker client as the views call it                                  *)
(***************************************************************************)
\* Parameters of the JiraClient methods: those without a default, in the
\* order of the signature (the same in both revisions), and all.
Signature(name) ==
    CASE name = "get_user_issues" -> <<"jira_user_id">>
      [] name = "get_issue" -> <<"issue_key">>
      [] name = "add_comment_to_issue" -> <<"issue_key", "comment">>
      [] name = "update_issue_status" -> <<"issue_key", "new_status">>
      [] name = "create_issue" ->
            <<"project_key", "summary", "description", "issue_type">>
      [] OTHER -> <<>>

BackendRequired(name) == {Signature(name)[i] : i \in 1..Len(Signature(name))}

BackendAllowed(name) ==
    BackendRequired(name) \cup
    (CASE name = "get_user_issues" -> {"status"}
       [] name = "add_comment_to_issue" -> {"mentions"}
       [] name = "create_issue" -> {"assignee"}
       [] name = "search_users" -> {"query"}
       [] OTHER -> {})

AppRequired(name) == IF name = "get_issue" THEN {} ELSE BackendRequired(name)

AppAllowed(name) ==
    AppRequired(name) \cup
    (CASE name = "get_user_issues" -> {"status", "max_results", "expand"}
       [] name = "add_comment_to_issue" -> {"mentions", "internal"}
       [] name = "create_issue" -> {"assignee"}
       [] name = "search_users" -> {"query", "max_results"}
       [] OTHER -> {})

\* method(**kwargs) binds: every required parameter given, no unknown one.
Binds(required, allowed, kwargs) ==
    required \subseteq DOMAIN kwargs /\ DOMAIN kwargs \subseteq allowed

\* The answer of the tracker when it fails an operation: the status code and
\* the text of the library's JIRAError.
TrackerFailure == [status_code |-> 500, text |-> "tracker failure"]

\* str(e) of the library's JIRAError.
JIRAErrorStr(status_code) == "JiraError HTTP " \o ToString(status_code)

\* backend format_error_message(e)['error'] for the tracker's failure: what the
\* decorated methods of the backend revision raise as a plain Exception.
JiraErrText ==
    "Jira Error (" \o ToString(TrackerFailure.status_code) \o "): "
        \o JIRAErrorStr(TrackerFailure.status_code)
        \o ".  Details: " \o TrackerFailure.text

\* The message of the JiraClientError an app method raises for a JIRAError
\* that is neither a 400 nor a 403.
AppErrPrefix(name) ==
    CASE name = "get_user_issues" -> "Error fetching issues: "
      [] name = "add_comment_to_issue" -> "Error adding comment: "
      [] name = "update_issue_status" -> "Error updating issue status: "
      [] name = "create_issue" -> "Error creating issue: "
      [] name = "get_all_statuses" -> "Error fetching statuses: "
      [] name = "search_users" -> "Error searching users: "
      [] OTHER -> ""

AppJiraErrText(name) == AppErrPrefix(name) \o JIRAErrorStr(TrackerFailure.status_code)

\* 'a' / 'a' and 'b' / 'a', 'b', and 'c': the names in a TypeError.
RECURSIVE QuotedList(_)
QuotedList(names) ==
    IF Len(names) = 0 THEN ""
    ELSE IF Len(names) = 1 THEN "'" \o names[1] \o "'"
    ELSE IF Len(names) = 2 THEN "'" \o names[1] \o "' and '" \o names[2] \o "'"
    ELSE IF Len(names) = 3
         THEN "'" \o names[1] \o "', '" \o names[2] \o "', and '" \o names[3] \o "'"
    ELSE "'" \o names[1] \o "', " \o QuotedList(Tail(names))

\* str(e) of the TypeError of method(**kwargs) that does not bind.  A keyword
\* that is no parameter is reported before a missing argument: the first such
\* keyword in the order of the dict (the dicts of the model hold at most one).
TypeErrText(name, signature, allowed, kwargs) ==
    LET unexpected == (DOMAIN kwargs) \ allowed
        missing == SelectSeq(signature, LAMBDA p : p \notin DOMAIN kwargs)
    IN  "JiraClient." \o name \o "() " \o
        (IF unexpected # {}
         THEN "got an unexpected keyword argument '"
                  \o (CHOOSE k \in unexpected : TRUE) \o "'"
         ELSE "missing " \o ToString(Len(missing)) \o " required positional argument"
                  \o (IF Len(missing) = 1 THEN "" ELSE "s") \o ": "
                  \o QuotedList(missing))

\* A method of the backend JiraClient called with **kwargs: the decorated
\* body raises on every attempt (a binding TypeError, or the tracker's error
\* re-raised as Exception) or returns the formatted result.
Backend_jira_call(name, kwargs, op) ==
    LET body == IF ~Binds(BackendRequired(name), BackendAllowed(name), kwargs)
                THEN Raise(NoResult, "TypeError",
                           TypeErrText(name, Signature(name), BackendAllowed(name),
                                       kwargs))
                ELSE IF op = "ok" THEN Ok(Result(name, kwargs))
                ELSE Raise(NoResult, "Exception", JiraErrText)
        run == jira_retry_wrapper(backend_jira_max_retries, <<body>>)
    IN  [run |-> run, result |-> IF run.ended = "returned" THEN body.value ELSE NoResult]

\* A method of the app JiraClient called with **kwargs: a binding TypeError,
\* a JiraClientError, or the formatted result.
App_jira_call(name, kwargs, op) ==
    IF ~Binds(AppRequired(name), AppAllowed(name), kwargs)
    THEN Raise(NoResult, "TypeError",
               TypeErrText(name, Signature(name), AppAllowed(name), kwargs))
    ELSE IF op = "ok" THEN Ok(Result(name, kwargs))
    ELSE Raise(NoResult, "JiraClientError", AppJiraErrText(name))

(***************************************************************************)
(* ChatView.post                                                            *)
(*                                                                          *)
(* What the environment does during one request:                            *)
(*   ctor  whether OpenAIClient() and JiraClient() can be built (they      *)
(*         cannot without credentials or a reachable service)               *)
(*   llm   the completion API's reply to the classifier                     *)
(*   op    whether the tracker serves the operation ("ok") or fails         *)
(*   summ  whether the completion API serves the summary ("ok") or fails    *)
(***************************************************************************)
\* A component the request cannot consult (the reply when a client cannot be
\* built, the tracker and the summary when no operation is called, the summary
\* when the tracker fails) is fixed to one value.
Envs ==
    { e \in [ctor : {"ok", "openai_fail", "jira_fail"}, llm : LLMReplies,
              op : {"ok", "fail"}, summ : {"ok", "fail"}] :
        /\ e.ctor # "ok" => e.llm.kind = "text"
        /\ (e.llm.kind # "call" \/ ~e.llm.parses) => e.op = "ok"
        /\ e.op = "fail" => e.summ = "ok"
        /\ (e.llm.kind # "call" \/ ~e.llm.parses) => e.summ = "ok" }

SummaryReply(summ) ==
    [kind |-> IF summ = "ok" THEN "text" ELSE "raise", content |-> "Summary",
     name |-> None, parses |-> FALSE, arguments |-> EmptyDict]

\* What one request did: the response, the rows it added to Conversation, the
\* classifier's result, the calls made on the tracker client (name, kwargs),
\* how the tracker call and the summary call ended, the completion calls made
\* for the classifier.
Turn(response, rows, intent, jira_calls, op_result, summ_result, llm_calls) ==
    [status_code |-> response.status_code, body |-> response.body, rows |-> rows,
     intent |-> intent, jira_calls |-> jira_calls, op_result |-> op_result,
     summ_result |-> summ_result, llm_calls |-> llm_calls]

Rejected(response) == Turn(response, <<>>, NoIntent, <<>>, "not_called", "not_called", 0)

\* The type and the payload key of the backend envelope of an operation.
BackendEnvelopeType(name) ==
    CASE name = "get_user_issues" -> "issue_list"
      [] name = "get_issue" -> "issue"
      [] name = "add_comment_to_issue" -> "comment"
      [] name = "update_issue_status" -> "status_update"
      [] name = "create_issue" -> "new_issue"
      [] name = "get_all_statuses" -> "status_list"
      [] name = "search_users" -> "user_list"
      [] OTHER -> None

BackendPayloadKey(name) ==
    CASE name = "get_user_issues" -> "issues"
      [] name = "get_issue" -> "issue"
      [] name = "add_comment_to_issue" -> "comment"
      [] name = "update_issue_status" -> "result"
      [] name = "create_issue" -> "issue"
      [] name = "get_all_statuses" -> "statuses"
      [] name = "search_users" -> "users"
      [] OTHER -> None

\* backend ChatView.post, lines 75-118: the structured response handling.
\* Gives the response data and what was called.
Backend_dispatch(intent, env) ==
    IF intent.kind = "response"
    THEN [data |-> TextEnvelope(intent.response), jira_calls |-> <<>>,
          op_result |-> "not_called", summ_result |-> "not_called"]
    ELSE IF intent.function_name \notin BackendFunctions
    THEN [data |-> TextEnvelope("I'm sorry, I couldn't handle that request."),
          jira_calls |-> <<>>, op_result |-> "not_called",
          summ_result |-> "not_called"]
    ELSE LET name == intent.function_name
             \* get_all_statuses() is called without the arguments
             kwargs == IF name = "get_all_statuses" THEN EmptyDict
                       ELSE intent.arguments
             call == Backend_jira_call(name, kwargs, env.op)
             calls == <<[name |-> name, kwargs |-> kwargs]>>
             summ == Backend_summarize_text(<<SummaryReply(env.summ)>>)
         IN  IF call.run.ended # "returned"
             THEN \* except Exception as e
                  [data |-> TextEnvelope("An error occurred: " \o call.run.exc.msg),
                   jira_calls |-> calls, op_result |-> "raised",
                   summ_result |-> "not_called"]
             ELSE IF summ.run.ended # "returned"
             THEN \* the same except clause: the result is dropped
                  [data |-> TextEnvelope("An error occurred: " \o summ.run.exc.msg),
                   jira_calls |-> calls, op_result |-> "ok",
                   summ_result |-> "raised"]
             ELSE [data |-> TypedEnvelope(BackendEnvelopeType(name),
                                          BackendPayloadKey(name), call.result,
                                          summ.summary),
                   jira_calls |-> calls, op_result |-> "ok", summ_result |-> "ok"]

\* str(e) of the error of the completion API's library when the service
\* cannot be reached: what models.list() raises in OpenAIClient().
OpenAIConnectionErrText == "Connection error."

\* backend ChatView.post.
Backend_ChatView_post(u, message, profile, env) ==
    IF Falsy(message)
    THEN Rejected(Response(ErrorBody("Message is required"), HTTP_400_BAD_REQUEST))
    ELSE IF ~profile.exists
    THEN Rejected(Response(ErrorBody("User profile not found"), HTTP_404_NOT_FOUND))
    ELSE
    LET inbound == Row(u, message, TRUE)
        classified == Backend_get_intent_and_parameters(<<env.llm>>)
        intent == classified.intent
        d == Backend_dispatch(intent, env)
        text == PyOr(d.data.summary, d.data.content)
    IN  IF env.ctor = "openai_fail"
        THEN Turn(Response(ErrorBody("Failed to initialize OpenAI client: "
                                     \o OpenAIConnectionErrText),
                           HTTP_500_INTERNAL_SERVER_ERROR),
                  <<inbound>>, NoIntent, <<>>, "not_called", "not_called", 0)
        ELSE IF env.ctor = "jira_fail"
        THEN Turn(Response(ErrorBody("Failed to initialize Jira client: "
                                     \o JIRAErrorStr(TrackerFailure.status_code)),
                           HTTP_500_INTERNAL_SERVER_ERROR),
                  <<inbound>>, NoIntent, <<>>, "not_called", "not_called", 0)
        ELSE IF classified.run.ended # "returned"
        THEN \* the outer except Exception
             Turn(Response(ErrorBody(classified.run.exc.msg),
                           HTTP_500_INTERNAL_SERVER_ERROR),
                  <<inbound>>, [NoIntent EXCEPT !.kind = "raised"], <<>>,
                  "not_called", "not_called", classified.run.calls)
        ELSE IF text = None
        THEN \* Conversation.message is NOT NULL: the create raises
             Turn(Response(ErrorBody("NOT NULL constraint failed"),
                           HTTP_500_INTERNAL_SERVER_ERROR),
                  <<inbound>>, intent, d.jira_calls, d.op_result, d.summ_result,
                  classified.run.calls)
        ELSE Turn(Response(d.data, HTTP_200_OK),
                  <<inbound, Row(u, text, FALSE)>>, intent, d.jira_calls,
                  d.op_result, d.summ_result, classified.run.calls)

\* The dict the app classifier returns for a text reply, which the response
\* carries as 'message', and str() of it, which the Conversation TextField
\* stores.
ResponseDict(text) == [response |-> text]

DictStr(d) == "{'response': '" \o d.response \o "'}"

\* app ChatView.post.  A client error built without a status code gives
\* Response(status=None); a handler that returns no Response makes the
\* framework answer 500.
App_ChatView_post(u, message, profile, env) ==
    IF Falsy(message)
    THEN Rejected(Response(ErrorBody("Message is required"), HTTP_400_BAD_REQUEST))
    ELSE IF ~profile.exists
    THEN \* request.user.profile raises; except Exception
         Rejected(Response(ErrorBody("Unexpected error: User has no profile."),
                           HTTP_500_INTERNAL_SERVER_ERROR))
    ELSE IF Falsy(profile.jira_user_id)
    THEN Rejected(Response(ErrorBody("Jira user ID not configured for this user"),
                           HTTP_400_BAD_REQUEST))
    ELSE IF env.ctor = "openai_fail"
    THEN Rejected(Response(ErrorBody("OpenAI error: OpenAI API key not provided"),
                           StatusNone))
    ELSE IF env.ctor = "jira_fail"
    THEN Rejected(Response(
             ErrorBody("Jira error: Unexpected error: Missing required Jira "
                           \o "credentials. Please check environment variables."),
             StatusNone))
    ELSE
    LET classified == App_get_intent_and_parameters(env.llm)
        intent == classified.value
        inbound == Row(u, message, TRUE)
        name == intent.function_name
        \* arguments['jira_user_id'] = user_profile.jira_user_id
        arguments == IF name = "get_user_issues"
                        /\ "jira_user_id" \notin DOMAIN intent.arguments
                     THEN DictSet(intent.arguments, "jira_user_id",
                                  profile.jira_user_id)
                     ELSE intent.arguments
        calls == <<[name |-> name, kwargs |-> arguments]>>
        call == App_jira_call(name, arguments, env.op)
    IN  IF ~classified.ok
        THEN Turn(Response(ErrorBody("OpenAI error: " \o classified.exc.msg),
                           StatusNone),
                  <<>>, [NoIntent EXCEPT !.kind = "raised"], <<>>, "not_called",
                  "not_called", 1)
        ELSE IF intent.kind = "function"
        THEN IF name \notin AppFunctions
             THEN Turn(Response(ErrorBody("Unknown function: " \o name),
                                HTTP_400_BAD_REQUEST),
                       <<inbound>>, intent, <<>>, "not_called", "not_called", 1)
             ELSE IF ~call.ok
             THEN \* a TypeError, or the IntegrationError raised for a
                  \* JiraClientError: except Exception
                  Turn(Response(ErrorBody("Unexpected error: " \o call.exc.msg),
                                HTTP_500_INTERNAL_SERVER_ERROR),
                       <<inbound>>, intent, calls, "raised", "not_called", 1)
             ELSE \* the handler ends without a return statement
                  Turn(Response(ErrorBody("view returned None"),
                                HTTP_500_INTERNAL_SERVER_ERROR),
                       <<inbound>>, intent, calls, "ok", "not_called", 1)
        ELSE Turn(Response([NoBody EXCEPT !.message = ResponseDict(intent.response)],
                           HTTP_200_OK),
                  <<inbound, Row(u, DictStr(ResponseDict(intent.response)), FALSE)>>,
                  intent,
                  <<>>, "not_called", "not_called", 1)

(***************************************************************************)
(* The service: users send chat requests                                    *)
(***************************************************************************)
\* No chat request answered yet.  An answered request is recorded with the
\* table as it was when the request came to it (before), the rows it read for
\* its history, whether it found a scrum update for today (found), what it
\* did (turn), and what its classifier call was given.
NoRequest ==
    [rev |-> None, user |-> None, message |-> None,
     profile |-> [exists |-> FALSE, jira_user_id |-> None],
     env |-> [ctor |-> "ok", llm |-> CHOOSE r \in LLMReplies : r.kind = "text",
              op |-> "ok", summ |-> "ok"],
     before |-> <<>>, history |-> <<>>, found |-> FALSE,
     turn |-> Rejected(Response(NoBody, StatusNone)),
     classified |-> FALSE, context |-> <<>>, messages |-> <<>>]

\* The worker threads of the server: each handles one request at a time.
Threads == {"t1", "t2"}

\* A thread that handles no request, and a request on its way through
\* ChatView.post: where the handler stands, the table as the request found
\* it, the rows it read for its history and whether it found a scrum update
\* for today.
ThreadIdle ==
    [stage |-> "idle", user |-> None, message |-> None, before |-> <<>>,
     history |-> <<>>, found |-> FALSE]

InFlight(stage, u, message, before, history, found) ==
    [stage |-> stage, user |-> u, message |-> message, before |-> before,
     history |-> history, found |-> found]

NoThreads == [t \in Threads |-> ThreadIdle]

RwIdle ==
    [state |-> "idle", wrapper |-> None, max_retries |-> 0, script |-> <<>>,
     run |-> RunReturnNone(0, <<>>)]

\* No scrum update stored, no create_scrum_update call in progress.
ScrumIdle ==
    [today |-> 0, table |-> {}, procs |-> <<>>, started |-> 0, notified |-> <<>>]

\* No tracker client operation called.
JiraIdle == [state |-> "idle", rev |-> None, op |-> None]

Init ==
    /\ revision \in {"backend", "app"}
    /\ profiles \in {p \in [Users -> UNION {ProfileStates(u) : u \in Users}] :
                        \A u \in Users : p[u] \in ProfileStates(u)}
    /\ conversation = <<>>
    /\ inflight = NoThreads
    /\ last = NoRequest
    /\ rw = RwIdle
    /\ scrum = ScrumIdle
    /\ jira = JiraIdle


(***************************************************************************)
(* The retry wrappers on scripted functions                                 *)
(***************************************************************************)
OutcomeKinds ==
    {"ok", "RequestException", "JIRAError", "JIRAError429", "JIRAError429NoHeader",
     "RateLimitError", "RateLimitErrorNoHint", "OpenAIError", "ValueError"}

\* The outcome of the given kind at call i of a scripted function: the value
\* "r<i>" or a new exception object.
ScriptedOutcome(kind, i) ==
    CASE kind = "ok" -> Ok("r" \o ToString(i))
      [] kind = "JIRAError" ->
            [Raise(None, "JIRAError", "server error")
                EXCEPT !.exc.status_code = HTTP_500_INTERNAL_SERVER_ERROR, !.exc.id = i]
      [] kind = "JIRAError429" ->
            [Raise(None, "JIRAError", "too many requests")
                EXCEPT !.exc.status_code = HTTP_429, !.exc.retry_after = 5,
                       !.exc.id = i]
      [] kind = "JIRAError429NoHeader" ->
            [Raise(None, "JIRAError", "too many requests")
                EXCEPT !.exc.status_code = HTTP_429, !.exc.id = i]
      [] kind = "RateLimitError" ->
            [Raise(None, "RateLimitError", "rate limit")
                EXCEPT !.exc.retry_after = 7, !.exc.id = i]
      [] kind = "RateLimitErrorNoHint" ->
            [Raise(None, "RateLimitError", "rate limit") EXCEPT !.exc.id = i]
      [] OTHER -> [Raise(None, kind, "failure") EXCEPT !.exc.id = i]

Scripts ==
    UNION { { [i \in 1..n |-> ScriptedOutcome(ks[i], i)] :
              ks \in [1..n -> OutcomeKinds] } : n \in 1..MaxScriptLen }

Wrappers == {"api_utils", "jira_integration"}

\* The failures a wrapper retries: the classes of its except clause.
Transient(wrapper, e) ==
    IF wrapper = "api_utils" THEN api_utils_caught(e) ELSE TRUE

RunWrapper(wrapper, max_retries, script) ==
    IF wrapper = "api_utils" THEN api_utils_wrapper(max_retries, script)
    ELSE jira_retry_wrapper(max_retries, script)

RetryInit ==
    /\ revision = "backend"
    /\ profiles = [u \in Users |-> [exists |-> FALSE, jira_user_id |-> None]]
    /\ conversation = <<>>
    /\ inflight = NoThreads
    /\ last = NoRequest
    /\ rw \in [state : {"built"}, wrapper : Wrappers,
               max_retries : 1..MaxRetries, script : Scripts,
               run : {RunReturnNone(0, <<>>)}]
    /\ scrum = ScrumIdle
    /\ jira = JiraIdle

\* The decorated function is called once.
RetryCall ==
    /\ rw.state = "built"
    /\ rw' = [rw EXCEPT !.state = "done",
                        !.run = RunWrapper(rw.wrapper, rw.max_retries, rw.script)]
    /\ UNCHANGED <<revision, profiles, conversation, inflight, last, scrum, jira>>

RetryNext == RetryCall

RetrySpec == RetryInit /\ [][RetryNext]_vars

\* The value a finished run returned (None when it returned none).
ReturnedValue(r) ==
    IF r.run.ended = "returned" THEN Outcome(r.script, r.run.final).value ELSE None

\* Calls 1..k-1 of the script fail with failures the wrapper retries and
\* call k returns.
FailsThenSucceedsAt(r, k) ==
    /\ k \in 1..Len(r.script)
    /\ r.script[k].ok
    /\ \A i \in 1..(k - 1) : ~r.script[i].ok /\ Transient(r.wrapper, r.script[i].exc)

\* Every call of the script fails with a failure the wrapper retries.
FailsEveryCall(r) ==
    \A i \in 1..Len(r.script) : ~r.script[i].ok /\ Transient(r.wrapper, r.script[i].exc)

\* C9: a wrapper built with max_retries = N around a function that fails
\* transiently on its first k-1 calls and returns a value on call k, with
\* 1 <= k <= N, returns that value after exactly k calls of the function.
C9_SucceedsOnAttemptK ==
    \A k \in 1..MaxScriptLen :
        (rw.state = "done" /\ k <= rw.max_retries /\ FailsThenSucceedsAt(rw, k))
            => /\ rw.run.ended = "returned"
               /\ ReturnedValue(rw) = rw.script[k].value
               /\ rw.run.calls = k

\* A run of the api_utils wrapper that succeeded on its last allowed attempt
\* after transient failures.
C9_Witness ==
    /\ rw.state = "done" /\ rw.wrapper = "api_utils"
    /\ rw.max_retries = 3 /\ FailsThenSucceedsAt(rw, 3)
    /\ rw.run.calls = 3 /\ ReturnedValue(rw) = "r3"

\* C10: a wrapper built with max_retries = N around a function that fails
\* transiently on every call calls it exactly N times and then raises the
\* exception of the last call itself.
C10_RaisesLastFailure ==
    (rw.state = "done" /\ FailsEveryCall(rw))
        => /\ rw.run.ended = "raised"
           /\ rw.run.calls = rw.max_retries
           /\ rw.run.exc = Outcome(rw.script, rw.max_retries).exc

\* A run of the api_utils wrapper that used up three attempts on three
\* different failures.
C10_Witness ==
    /\ rw.state = "done" /\ rw.wrapper = "api_utils"
    /\ rw.max_retries = 3 /\ Len(rw.script) = 3 /\ FailsEveryCall(rw)
    /\ rw.run.ended = "raised" /\ rw.run.exc.id = 3

\* A failure no wrapper should retry: a validation failure (ValueError).
ValidationFailure(e) == e.class = "ValueError"

\* C11: when the first call of the wrapped function fails with a
\* non-transient (validation) failure, the wrapper raises that failure after
\* exactly one call and without sleeping.
C11_NonTransientPropagates ==
    (/\ rw.state = "done"
     /\ ~rw.script[1].ok
     /\ ValidationFailure(rw.script[1].exc))
        => /\ rw.run.ended = "raised"
           /\ rw.run.exc = rw.script[1].exc
           /\ rw.run.calls = 1
           /\ rw.run.sleeps = <<>>

\* A rate-limit failure that carries an explicit retry-after duration.
RateLimitedWithHint(e) ==
    api_utils_is_rate_limit(e) /\ get_retry_after(e) > 0

\* C12: when the calls of the wrapped function before call k all fail with a
\* rate-limit error carrying a retry-after duration and call k returns, the
\* api_utils wrapper returns the value of call k, however many rate-limited
\* calls came first, having slept exactly the retry-after durations.
C12_RateLimitOutsideBudget ==
    \A k \in 1..MaxScriptLen :
        (/\ rw.state = "done"
         /\ rw.wrapper = "api_utils"
         /\ k <= Len(rw.script)
         /\ rw.script[k].ok
         /\ \A i \in 1..(k - 1) :
               ~rw.script[i].ok /\ RateLimitedWithHint(rw.script[i].exc))
            => /\ rw.run.ended = "returned"
               /\ ReturnedValue(rw) = rw.script[k].value
               /\ rw.run.sleeps =
                     [i \in 1..(k - 1) |-> get_retry_after(rw.script[i].exc)]

(***************************************************************************)
(* Properties of a chat turn                                                *)
(***************************************************************************)
Handled == last.rev # None

\* The rows of one user, in order.
UserRows(rows, u) == SelectSeq(rows, LAMBDA r : r.user = u)

\* The dispatch table of the deployed revision.
DispatchTable(rev) == IF rev = "backend" THEN BackendFunctions ELSE AppFunctions

NoTrackerIdentity(profile) == ~profile.exists \/ Falsy(profile.jira_user_id)

\* The rows are in the table, in their order.
StoredInOrder(rows, table) ==
    \E at \in [1..Len(rows) -> 1..Len(table)] :
        /\ \A i \in 1..Len(rows) : table[at[i]] = rows[i]
        /\ \A i, j \in 1..Len(rows) : i < j => at[i] < at[j]

\* C1: a chat turn that answers 200 to a user whose transcript was empty
\* appends exactly two rows to that transcript: the inbound message flagged
\* as the user's, then an assistant row whose text is the envelope's summary
\* if present and its content otherwise.
C1_TwoMessagesPerOkTurn ==
    (/\ Handled
     /\ last.turn.status_code = HTTP_200_OK
     /\ UserRows(last.before, last.user) = <<>>)
        => /\ last.turn.rows =
                 << Row(last.user, last.message, TRUE),
                    Row(last.user,
                        PyOr(last.turn.body.summary, last.turn.body.content), FALSE) >>
           /\ StoredInOrder(last.turn.rows, UserRows(conversation, last.user))

\* C2: when the classifier asked for a known operation and the tracker
\* failed it, the turn answers 200 with a text envelope describing the error,
\* and that text is the persisted assistant row.
C2_OperationFailureIsText ==
    (/\ Handled
     /\ last.env.op = "fail"
     /\ last.turn.op_result = "raised")
        => /\ last.turn.status_code = HTTP_200_OK
           /\ last.turn.body.type = "text"
           /\ ~Falsy(last.turn.body.content)
           /\ Len(last.turn.rows) = 2
           /\ last.turn.rows[2] = Row(last.user, last.turn.body.content, FALSE)

\* C3: when the classifier asked for get_user_issues, the operation is
\* invoked with a jira_user_id: the one among the arguments when there is
\* one, the caller's profile jira_user_id otherwise.
C3_IdentityInjected ==
    (/\ Handled
     /\ last.turn.intent.kind = "function"
     /\ last.turn.intent.function_name = "get_user_issues")
        => /\ Len(last.turn.jira_calls) = 1
           /\ last.turn.jira_calls[1].name = "get_user_issues"
           /\ "jira_user_id" \in DOMAIN last.turn.jira_calls[1].kwargs
           /\ last.turn.jira_calls[1].kwargs.jira_user_id =
                 (IF "jira_user_id" \in DOMAIN last.turn.intent.arguments
                  THEN last.turn.intent.arguments.jira_user_id
                  ELSE last.profile.jira_user_id)

\* C4: when the classifier asked for a name outside the dispatch table, no
\* tracker operation is invoked and the turn answers with the text envelope
\* "I'm sorry, I couldn't handle that request.", persisted as the assistant
\* row.
C4_UnknownOperationApology ==
    (/\ Handled
     /\ last.turn.intent.kind = "function"
     /\ last.turn.intent.function_name \notin DispatchTable(last.rev))
        => /\ last.turn.jira_calls = <<>>
           /\ last.turn.status_code = HTTP_200_OK
           /\ last.turn.body.type = "text"
           /\ last.turn.body.content = "I'm sorry, I couldn't handle that request."
           /\ last.turn.rows = << Row(last.user, last.message, TRUE),
                                  Row(last.user, last.turn.body.content, FALSE) >>

\* C5: when the tracker operation succeeded and the summary call failed, the
\* turn answers 200 with the typed envelope of the operation carrying the raw
\* result.
C5_SummaryFailureKeepsResult ==
    (/\ Handled
     /\ last.turn.op_result = "ok"
     /\ last.turn.summ_result = "raised")
        => /\ last.turn.status_code = HTTP_200_OK
           /\ last.turn.body.type =
                 BackendEnvelopeType(last.turn.intent.function_name)
           /\ last.turn.body.result =
                 Result(last.turn.jira_calls[1].name, last.turn.jira_calls[1].kwargs)

\* C6: when the classifier's completion call failed, the turn answers 200
\* with a text envelope, never 500.
C6_ClassifierFailureIsText ==
    (Handled /\ last.turn.intent.kind = "raised")
        => /\ last.turn.status_code = HTTP_200_OK
           /\ last.turn.body.type = "text"
           /\ ~Falsy(last.turn.body.content)

\* C7: a chat request whose message is missing or empty is answered 400
\* 'Message is required'; no row is persisted, the classifier is not invoked
\* and no tracker operation is invoked: the step that answers it leaves the
\* tables as they are.
C7_EmptyMessageRejected ==
    /\ []((Handled /\ (last.message = None \/ last.message = ""))
            => /\ last.turn.status_code = HTTP_400_BAD_REQUEST
               /\ last.turn.body.error = "Message is required"
               /\ last.turn.rows = <<>>
               /\ last.turn.llm_calls = 0
               /\ last.turn.intent = NoIntent
               /\ last.turn.jira_calls = <<>>)
    /\ [][(last' # last /\ (last'.message = None \/ last'.message = ""))
             => /\ conversation' = conversation
                /\ scrum' = scrum
                /\ conversation = last'.before]_vars

\* An empty message sent to the app revision by a fully configured user while
\* the classifier would have asked for an operation.
C7_Witness ==
    /\ Handled /\ last.rev = "app" /\ last.message = ""
    /\ ~NoTrackerIdentity(last.profile)
    /\ last.env.ctor = "ok" /\ last.env.llm.kind = "call"
    /\ last.turn.status_code = HTTP_400_BAD_REQUEST

\* C8: a chat turn of a user without a profile, or whose profile has no
\* jira_user_id, is answered with a 4xx error; no row is persisted, the
\* classifier is not invoked and no tracker operation is invoked.
C8_NoIdentityRejected ==
    (/\ Handled
     /\ ~Falsy(last.message)
     /\ NoTrackerIdentity(last.profile))
        => /\ last.turn.status_code \in 400..499
           /\ last.turn.rows = <<>>
           /\ last.turn.llm_calls = 0
           /\ last.turn.jira_calls = <<>>

(***************************************************************************)
(* Texts as sequences of characters                                         *)
(***************************************************************************)
Upper == {"A", "B"}
Lower == {"a", "b"}
Digit == {"1", "2"}

\* The set of the elements of a sequence.
Range(f) == {f[i] : i \in DOMAIN f}

\* The Python string of a sequence of characters.
RECURSIVE Str(_)
Str(s) == IF s = <<>> THEN "" ELSE s[1] \o Str(Tail(s))

\* c in s
Contains(s, c) == \E i \in 1..Len(s) : s[i] = c

\* s.split(c)
RECURSIVE Split(_, _)
Split(s, c) ==
    IF ~Contains(s, c) THEN <<s>>
    ELSE LET i == CHOOSE i \in 1..Len(s) : s[i] = c /\ \A j \in 1..(i - 1) : s[j] # c
         IN  <<SubSeq(s, 1, i - 1)>> \o Split(SubSeq(s, i + 1, Len(s)), c)

isalnum(s) == s # <<>> /\ \A i \in 1..Len(s) : s[i] \in Upper \cup Lower \cup Digit
isdigit(s) == s # <<>> /\ \A i \in 1..Len(s) : s[i] \in Digit

\* The first index from i on whose character is outside the class.
RECURSIVE RunEnd(_, _, _)
RunEnd(text, i, class) ==
    IF i <= Len(text) /\ text[i] \in class THEN RunEnd(text, i + 1, class) ELSE i

\* The index after a match of [A-Z]+-\d+ that starts at i; 0 when none does.
MatchAt(text, i) ==
    LET u == RunEnd(text, i, Upper)
    IN  IF u = i \/ u > Len(text) \/ text[u] # "-" THEN 0
        ELSE LET d == RunEnd(text, u + 1, Digit)
             IN  IF d = u + 1 THEN 0 ELSE d

\* re.findall(r'[A-Z]+-\d+', text), scanning from index i.
RECURSIVE findall_from(_, _)
findall_from(text, i) ==
    IF i > Len(text) THEN <<>>
    ELSE LET e == MatchAt(text, i)
         IN  IF e = 0 THEN findall_from(text, i + 1)
             ELSE <<SubSeq(text, i, e - 1)>> \o findall_from(text, e)

findall(text) == findall_from(text, 1)

\* The keys of a text, each once: set(re.findall(...)).
DistinctKeys(updates) == Range(findall(updates))

(***************************************************************************)
(* The tracker client of the app revision (jira_integration_app)            *)
(***************************************************************************)
\* An exception of the client: its class, its status_code attribute (0 for
\* None or absent), the message it was built from and its text attribute
\* (the body of the tracker's answer, which only the library's error has).
ClientExc(class, status_code, msg) ==
    [class |-> class, status_code |-> status_code, msg |-> msg, text |-> ""]

NoClientExc == ClientExc(None, StatusNone, "")

ValidationError(msg) == ClientExc("ValidationError", StatusNone, msg)
JiraClientError(msg, status_code) == ClientExc("JiraClientError", status_code, msg)
\* The tracker library's error for an HTTP answer.
JIRAError(status_code) ==
    [ClientExc("JIRAError", status_code, JIRAErrorStr(status_code))
        EXCEPT !.text = TrackerFailure.text]

\* str(e): django's ValidationError prints the list of its messages.
ExcStr(e) == IF e.class = "ValidationError" THEN "['" \o e.msg \o "']" ELSE e.msg

\* The HTTP answers of the tracker to one request.
TrackerAnswers == {200, 400, 403, 404, 500}
\* The tracker library raises JIRAError for every answer but a success.
Success(status_code) == status_code = 200

\* What one call of a client operation did: the tracker endpoints it called,
\* in order, and how it ended.
ClientReturn(value, calls) ==
    [ended |-> "returned", value |-> value, exc |-> NoClientExc, calls |-> calls]
ClientRaise(exc, calls) ==
    [ended |-> "raised", value |-> <<>>, exc |-> exc, calls |-> calls]

\* _validate_issue_key: the exception it raises, NoClientExc when none.
validate_issue_key(issue_key) ==
    IF issue_key = <<>> \/ ~Contains(issue_key, "-")
    THEN ValidationError("Invalid issue key format: " \o Str(issue_key))
    ELSE LET parts == Split(issue_key, "-")
         IN  IF Len(parts) # 2
             THEN ClientExc("ValueError", StatusNone,
                            "too many values to unpack (expected 2)")
             ELSE IF ~isalnum(parts[1]) \/ ~isdigit(parts[2])
             THEN ValidationError("Invalid issue key format: " \o Str(issue_key))
             ELSE NoClientExc

\* The except clauses of add_comment_to_issue, applied to what its try body
\* raised: the exception that reaches the caller.
App_add_comment_except(e) ==
    IF e.class = "JIRAError"
    THEN IF e.status_code = 400
         THEN ValidationError("Invalid comment format: " \o ExcStr(e))
         ELSE JiraClientError("Error adding comment: " \o ExcStr(e), e.status_code)
    ELSE JiraClientError("Unexpected error adding comment: " \o ExcStr(e), StatusNone)

\* The except clause around the issue lookup, inside the try body.
App_lookup_except(issue_key, e) ==
    IF e.status_code = 404
    THEN ValidationError("Issue " \o Str(issue_key) \o " not found")
    ELSE IF e.status_code = 403
    THEN JiraClientError("Permission denied to access the issue", 403)
    ELSE e

\* add_comment_to_issue(issue_key, comment) without mentions, the tracker
\* answering its issue lookup and its comment request as given.
App_add_comment_to_issue(issue_key, comment, tracker) ==
    LET invalid == validate_issue_key(issue_key)
    IN  IF invalid # NoClientExc
        THEN ClientRaise(App_add_comment_except(invalid), <<>>)
        ELSE IF ~Success(tracker.issue)
        THEN ClientRaise(
                 App_add_comment_except(
                     App_lookup_except(issue_key, JIRAError(tracker.issue))),
                 <<"issue">>)
        ELSE IF ~Success(tracker.add_comment)
        THEN ClientRaise(App_add_comment_except(JIRAError(tracker.add_comment)),
                         <<"issue", "add_comment">>)
        ELSE ClientReturn(<<issue_key, comment>>,
                          <<"issue", "add_comment">>)

\* str.lower() and str.upper(), character by character.
ToLower(c) == IF c = "A" THEN "a" ELSE IF c = "B" THEN "b" ELSE c
ToUpper(c) == IF c = "a" THEN "A" ELSE IF c = "b" THEN "B" ELSE c
lower(s) == [i \in 1..Len(s) |-> ToLower(s[i])]
upper(s) == [i \in 1..Len(s) |-> ToUpper(s[i])]

\* a in b, for two strings.
IsSubstring(a, b) ==
    \E i \in 0..(Len(b) - Len(a)) : SubSeq(b, i + 1, i + Len(a)) = a

\* ', '.join(names)
RECURSIVE Join(_)
Join(names) ==
    IF names = <<>> THEN ""
    ELSE IF Len(names) = 1 THEN Str(names[1])
    ELSE Str(names[1]) \o ", " \o Join(Tail(names))

\* The keys of {name.lower(): id for ...}, in insertion order.
RECURSIVE DictKeys(_)
DictKeys(names) ==
    IF names = <<>> THEN <<>>
    ELSE LET front == DictKeys(SubSeq(names, 1, Len(names) - 1))
             k == lower(names[Len(names)])
         IN  IF k \in Range(front) THEN front ELSE Append(front, k)

\* The value the dict holds for a key: the id of its last occurrence, the id
\* of a transition being its position in the tracker's list.
DictValue(names, k) ==
    CHOOSE i \in 1..Len(names) :
        /\ lower(names[i]) = k
        /\ \A j \in (i + 1)..Len(names) : lower(names[j]) # k

\* The except clauses of get_user_issues.
App_get_user_issues_except(e) ==
    IF e.class = "JIRAError"
    THEN IF e.status_code = 400
         THEN ValidationError("Invalid JQL query: " \o ExcStr(e))
         ELSE JiraClientError("Error fetching issues: " \o ExcStr(e), e.status_code)
    ELSE JiraClientError("Unexpected error fetching issues: " \o ExcStr(e), StatusNone)

\* The status names _build_jql_query validates against: the cached list,
\* the tracker's when the cache holds none.
valid_statuses(cache, names) ==
    IF cache.valid_statuses # <<>> THEN cache.valid_statuses ELSE names

\* get_user_issues(jira_user_id, status, max_results): an empty status is
\* no filter; the tracker holds fewer issues than one batch.
App_get_user_issues(status, max_results, cache, names, tracker) ==
    LET fetch == status # <<>> /\ cache.valid_statuses = <<>>
        c1 == IF fetch THEN <<"statuses">> ELSE <<>>
        valid == valid_statuses(cache, names)
    IN  IF fetch /\ ~Success(tracker.statuses)
        THEN ClientRaise(App_get_user_issues_except(JIRAError(tracker.statuses)), c1)
        ELSE IF status # <<>> /\ upper(status) \notin {upper(valid[i]) : i \in 1..Len(valid)}
        THEN ClientRaise(
                 App_get_user_issues_except(
                     ValidationError("Invalid status: " \o Str(status)
                                     \o ". Valid statuses are: " \o Join(valid))),
                 c1)
        ELSE IF cache.issues THEN ClientReturn(<<"cached">>, c1)
        ELSE IF max_results <= 0 THEN ClientReturn(<<>>, c1)
        ELSE IF ~Success(tracker.search_issues)
        THEN ClientRaise(App_get_user_issues_except(JIRAError(tracker.search_issues)),
                         Append(c1, "search_issues"))
        ELSE ClientReturn(<<"issues">>, Append(c1, "search_issues"))

\* The except clauses of update_issue_status.
App_update_status_except(e) ==
    IF e.class = "JIRAError"
    THEN IF e.status_code = 400
         THEN ValidationError("Invalid status transition: " \o ExcStr(e))
         ELSE JiraClientError("Error updating issue status: " \o ExcStr(e),
                              e.status_code)
    ELSE JiraClientError("Unexpected error updating issue status: " \o ExcStr(e),
                         StatusNone)

\* A variant that falls back to the first transition when none matches.
App_transition_id_fallback(names, new_status) ==
    LET keys == DictKeys(names)
        wanted == lower(new_status)
        partial == {i \in 1..Len(keys) : IsSubstring(wanted, keys[i])}
    IN  IF wanted \in Range(keys) THEN DictValue(names, wanted)
        ELSE IF partial = {} THEN (IF names = <<>> THEN 0 ELSE 1)
        ELSE DictValue(names, keys[CHOOSE i \in partial : \A j \in partial : i <= j])

\* The transition update_issue_status picks: the exact match, else the first
\* key that contains new_status; 0 when none.
App_transition_id(names, new_status) ==
    LET keys == DictKeys(names)
        wanted == lower(new_status)
        partial == {i \in 1..Len(keys) : IsSubstring(wanted, keys[i])}
    IN  IF wanted \in Range(keys) THEN DictValue(names, wanted)
        ELSE IF partial = {} THEN 0
        ELSE DictValue(names, keys[CHOOSE i \in partial : \A j \in partial : i <= j])

\* update_issue_status(issue_key, new_status), the issue having the given
\* transitions (their names, in the tracker's order).
App_update_issue_status(issue_key, new_status, names, tracker) ==
    LET invalid == validate_issue_key(issue_key)
        id == App_transition_id(names, new_status)
    IN  IF invalid # NoClientExc
        THEN ClientRaise(App_update_status_except(invalid), <<>>)
        ELSE IF ~Success(tracker.issue)
        THEN ClientRaise(
                 App_update_status_except(
                     App_lookup_except(issue_key, JIRAError(tracker.issue))),
                 <<"issue">>)
        ELSE IF ~Success(tracker.transitions)
        THEN ClientRaise(App_update_status_except(JIRAError(tracker.transitions)),
                         <<"issue", "transitions">>)
        ELSE IF id = 0
        THEN ClientRaise(
                 App_update_status_except(
                     ValidationError("Invalid status transition. Valid statuses are: "
                                     \o Join(DictKeys(names)))),
                 <<"issue", "transitions">>)
        ELSE IF ~Success(tracker.transition_issue)
        THEN ClientRaise(App_update_status_except(JIRAError(tracker.transition_issue)),
                         <<"issue", "transitions", "transition_issue">>)
        ELSE IF ~Success(tracker.refetch)
        THEN ClientRaise(App_update_status_except(JIRAError(tracker.refetch)),
                         <<"issue", "transitions", "transition_issue", "issue">>)
        ELSE ClientReturn(<<issue_key, names[id]>>,
                          <<"issue", "transitions", "transition_issue", "issue">>)

\* The except clauses of create_issue.
App_create_issue_except(e) ==
    IF e.class = "JIRAError"
    THEN IF e.status_code = 400
         THEN ValidationError("Invalid issue data: " \o ExcStr(e))
         ELSE IF e.status_code = 403
         THEN JiraClientError("Permission denied to create issue", 403)
         ELSE JiraClientError("Error creating issue: " \o ExcStr(e), e.status_code)
    ELSE JiraClientError("Unexpected error creating issue: " \o ExcStr(e), StatusNone)

\* create_issue(project_key, summary, description, issue_type, assignee) of
\* the app revision.
App_create_issue(project_key, summary, description, issue_type, assignee, tracker) ==
    LET lookup == IF Falsy(assignee) THEN <<>> ELSE <<"user">>
    IN  IF Falsy(project_key)
        THEN ClientRaise(App_create_issue_except(
                             ValidationError("Project key is required")), <<>>)
        ELSE IF Falsy(summary)
        THEN ClientRaise(App_create_issue_except(
                             ValidationError("Summary is required")), <<>>)
        ELSE IF Falsy(issue_type)
        THEN ClientRaise(App_create_issue_except(
                             ValidationError("Issue type is required")), <<>>)
        ELSE IF ~Falsy(assignee) /\ ~Success(tracker.user)
        THEN ClientRaise(
                 App_create_issue_except(
                     IF tracker.user = 404
                     THEN ValidationError("Assignee " \o assignee \o " not found")
                     ELSE JIRAError(tracker.user)),
                 lookup)
        ELSE IF ~Success(tracker.create_issue)
        THEN ClientRaise(App_create_issue_except(JIRAError(tracker.create_issue)),
                         Append(lookup, "create_issue"))
        ELSE ClientReturn(<<project_key, summary, issue_type>>,
                          Append(lookup, "create_issue"))

(***************************************************************************)
(* The tracker client of the backend revision (backend/core)                *)
(***************************************************************************)
\* raise Exception(format_error_message(e)['error'])
Backend_format_error(e) ==
    ClientExc("Exception", StatusNone,
              IF e.class = "JIRAError"
              THEN "Jira Error (" \o ToString(e.status_code) \o "): " \o ExcStr(e)
                   \o ".  Details: " \o e.text
              ELSE e.class \o ": " \o ExcStr(e))

\* The first transition whose name equals new_status whatever the case; 0
\* when none.
Backend_transition_id(names, new_status) ==
    LET exact == {i \in 1..Len(names) : lower(names[i]) = lower(new_status)}
    IN  IF exact = {} THEN 0 ELSE CHOOSE i \in exact : \A j \in exact : i <= j

\* One run of the body of update_issue_status of the backend revision.
Backend_update_issue_status_body(issue_key, new_status, names, tracker) ==
    LET id == Backend_transition_id(names, new_status)
    IN  IF ~Success(tracker.issue)
        THEN ClientRaise(Backend_format_error(JIRAError(tracker.issue)), <<"issue">>)
        ELSE IF ~Success(tracker.transitions)
        THEN ClientRaise(Backend_format_error(JIRAError(tracker.transitions)),
                         <<"issue", "transitions">>)
        ELSE IF id = 0
        THEN ClientRaise(
                 Backend_format_error(
                     ClientExc("ValueError", StatusNone,
                               "Invalid status '" \o Str(new_status)
                               \o "'. Valid transitions are: " \o Join(names))),
                 <<"issue", "transitions">>)
        ELSE IF ~Success(tracker.transition_issue)
        THEN ClientRaise(Backend_format_error(JIRAError(tracker.transition_issue)),
                         <<"issue", "transitions", "transition_issue">>)
        ELSE IF ~Success(tracker.refetch)
        THEN ClientRaise(Backend_format_error(JIRAError(tracker.refetch)),
                         <<"issue", "transitions", "transition_issue", "issue">>)
        ELSE ClientReturn(<<issue_key, names[id]>>,
                          <<"issue", "transitions", "transition_issue", "issue">>)

\* One run of the body of create_issue of the backend revision.
Backend_create_issue_body(project_key, summary, description, issue_type, assignee, tracker) ==
    IF Falsy(project_key) \/ Falsy(summary) \/ Falsy(description) \/ Falsy(issue_type)
    THEN ClientRaise(
             Backend_format_error(
                 ClientExc("ValueError", StatusNone,
                           "All mandatory fields must be provided")),
             <<>>)
    ELSE IF ~Success(tracker.create_issue)
    THEN ClientRaise(Backend_format_error(JIRAError(tracker.create_issue)),
                     <<"create_issue">>)
    ELSE ClientReturn(<<project_key, summary, issue_type>>, <<"create_issue">>)

RECURSIVE ConcatCalls(_, _)
ConcatCalls(runs, n) ==
    IF n = 0 THEN <<>> ELSE ConcatCalls(runs, n - 1) \o runs[n].calls

\* A method decorated with retry_with_backoff(max_retries=3), its body
\* running as runs[i] at attempt i: what the caller gets, the attempts made,
\* the sleeps between them and every tracker call of every attempt.
Backend_retried(runs) ==
    LET w == jira_retry_wrapper(
                 backend_jira_max_retries,
                 [i \in 1..Len(runs) |-> [ok |-> runs[i].ended = "returned",
                                          exc |-> runs[i].exc]])
    IN  [ended |-> w.ended,
         value |-> IF w.ended = "returned" THEN runs[w.final].value ELSE <<>>,
         exc |-> IF w.ended = "raised" THEN w.exc ELSE NoClientExc,
         calls |-> ConcatCalls(runs, w.calls),
         attempts |-> w.calls,
         sleeps |-> w.sleeps]

(***************************************************************************)
(* Calls of the tracker client                                              *)
(***************************************************************************)
IssueKeys ==
    { <<"A", "-", "1">>, <<"a", "1">>, <<"A", "-", "1", "-", "2">>, <<"A", "-", "b">> }

\* Names of statuses and of transitions, and the names callers ask for; the
\* empty one is a status left out.
NameLists ==
    { <<>>, <<<<"A", "b">>>>, <<<<"A", "b">>, <<"B", "a">>>>,
      <<<<"A", "b">>, <<"a">>>>, <<<<"A">>, <<"a">>>> }
AskedNames == { <<>>, <<"a">>, <<"a", "B">>, <<"b", "b">> }

Fields == {None, "", "x"}

JiraCalls ==
    [state : {"called"}, rev : {"app"}, op : {"get_user_issues"},
     status : AskedNames, max_results : {0, 50},
     cache : [valid_statuses : {<<>>, <<<<"A">>>>}, issues : BOOLEAN],
     names : NameLists,
     tracker : [statuses : {200, 500}, search_issues : {200, 400, 500}]]
    \cup
    [state : {"called"}, rev : {"app"}, op : {"add_comment_to_issue"},
     issue_key : IssueKeys,
     tracker : [issue : TrackerAnswers, add_comment : TrackerAnswers]]
    \cup
    [state : {"called"}, rev : {"app"}, op : {"update_issue_status"},
     issue_key : IssueKeys, new_status : AskedNames, names : NameLists,
     tracker : [issue : TrackerAnswers, transitions : {200, 500},
                transition_issue : {200, 400}, refetch : {200, 500}]]
    \cup
    [state : {"called"}, rev : {"app"}, op : {"create_issue"},
     project_key : Fields, summary : Fields, description : Fields,
     issue_type : Fields, assignee : Fields,
     tracker : [user : {200, 404, 500}, create_issue : {200, 400, 403}]]
    \cup
    [state : {"called"}, rev : {"backend"}, op : {"update_issue_status"},
     issue_key : IssueKeys, new_status : AskedNames, names : NameLists,
     tracker : [1..backend_jira_max_retries ->
                   [issue : {200, 500}, transitions : {200}, transition_issue : {200},
                    refetch : {200, 500}]]]
    \cup
    [state : {"called"}, rev : {"backend"}, op : {"create_issue"},
     project_key : Fields, summary : Fields, description : Fields,
     issue_type : Fields, assignee : Fields,
     tracker : [1..backend_jira_max_retries -> [create_issue : {200, 500}]]]

\* The called operation runs.
JiraRun(c) ==
    IF c.rev = "app"
    THEN IF c.op = "get_user_issues"
         THEN App_get_user_issues(c.status, c.max_results, c.cache, c.names, c.tracker)
         ELSE IF c.op = "add_comment_to_issue"
         THEN App_add_comment_to_issue(c.issue_key, <<"c">>, c.tracker)
         ELSE IF c.op = "update_issue_status"
         THEN App_update_issue_status(c.issue_key, c.new_status, c.names, c.tracker)
         ELSE App_create_issue(c.project_key, c.summary, c.description,
                               c.issue_type, c.assignee, c.tracker)
    ELSE IF c.op = "update_issue_status"
    THEN Backend_retried([i \in DOMAIN c.tracker |->
             Backend_update_issue_status_body(c.issue_key, c.new_status, c.names,
                                              c.tracker[i])])
    ELSE Backend_retried([i \in DOMAIN c.tracker |->
             Backend_create_issue_body(c.project_key, c.summary, c.description,
                                       c.issue_type, c.assignee, c.tracker[i])])

JiraInit ==
    /\ revision \in {"backend", "app"}
    /\ profiles = [u \in Users |-> [exists |-> FALSE, jira_user_id |-> None]]
    /\ conversation = <<>>
    /\ inflight = NoThreads
    /\ last = NoRequest
    /\ rw = RwIdle
    /\ scrum = ScrumIdle
    /\ jira \in {c \in JiraCalls : c.rev = revision}

JiraCall ==
    /\ jira.state = "called"
    /\ jira' = [c \in DOMAIN jira \cup {"run"} |->
                   IF c = "state" THEN "done"
                   ELSE IF c = "run" THEN JiraRun(jira)
                   ELSE jira[c]]
    /\ UNCHANGED <<revision, profiles, conversation, inflight, last, rw, scrum>>

JiraNext == JiraCall

JiraSpec == JiraInit /\ [][JiraNext]_vars

(***************************************************************************)
(* Scrum updates (jira_integration_app/core/utils.py)                       *)
(***************************************************************************)
MaxScrumCalls == 2
MaxDays == 2
Procs == {"p1", "p2"}

\* The update texts users submit.
ScrumTexts ==
    { <<"a", "-", "1", " ", "A", "-", "1", " ", "A", "-", "1">>,
      <<"A", "-", "1", " ", "B", "-", "2">> }

\* How the tracker answers the two requests of one tagging comment.
ScrumTrackers ==
    { [issue |-> 200, add_comment |-> 200], [issue |-> 404, add_comment |-> 200],
      [issue |-> 200, add_comment |-> 400], [issue |-> 200, add_comment |-> 500] }

\* ScrumUpdate.objects.filter(user=user, date=date)
ScrumRows(table, user, date) == {row \in table : row.user = user /\ row.date = date}

\* str() of a date, as the f-string of the error shows it: day d of the model
\* is the d-th of January 2025.
DateStr(d) == "2025-01-" \o (IF d < 10 THEN "0" ELSE "") \o ToString(d)

\* str() of the IntegrityError of the database for a second row of a user
\* and date (unique_together of ScrumUpdate).
UniqueErrText ==
    "UNIQUE constraint failed: core_scrumupdate.user_id, core_scrumupdate.date"

\* get_scrum_update(user, date) found a row.
get_scrum_update_found(table, user, date) == ScrumRows(table, user, date) # {}

\* The comment create_scrum_update sends to each issue.
ScrumComment(user, updates) == <<"Daily Scrum Update from ", user, ":\n">> \o updates

ProcIdle ==
    [pc |-> "idle", user |-> None, updates |-> <<>>, date |-> 0, keys |-> {},
     attempts |-> <<>>, results |-> <<>>, ended |-> None, exc |-> NoClientExc]

ScrumInit ==
    /\ revision = "app"
    /\ profiles = [u \in Users |-> [exists |-> FALSE, jira_user_id |-> None]]
    /\ conversation = <<>>
    /\ inflight = NoThreads
    /\ last = NoRequest
    /\ rw = RwIdle
    /\ jira = JiraIdle
    /\ scrum = [today |-> 1, table |-> {}, procs |-> [p \in Procs |-> ProcIdle],
                started |-> 0, notified |-> <<>>]

ScrumStep(p, proc, table) ==
    /\ scrum' = [scrum EXCEPT !.procs[p] = proc, !.table = table]
    /\ UNCHANGED <<revision, profiles, conversation, inflight, last, rw, jira>>

\* create_scrum_update(user, updates, jira_client) is called: it reads the date.
ScrumCall(p) ==
    /\ scrum.procs[p].pc \in {"idle", "done"}
    /\ scrum.started < MaxScrumCalls
    /\ \E u \in Users, updates \in ScrumTexts :
          scrum' = [scrum EXCEPT
                       !.procs[p] = [ProcIdle EXCEPT !.pc = "check", !.user = u,
                                        !.updates = updates, !.date = scrum.today],
                       !.started = @ + 1]
    /\ UNCHANGED <<revision, profiles, conversation, inflight, last, rw, jira>>

\* The existence check: an update found for the date raises ValueError.
ScrumCheck(p) ==
    LET proc == scrum.procs[p]
    IN  /\ proc.pc = "check"
        /\ IF get_scrum_update_found(scrum.table, proc.user, proc.date)
           THEN ScrumStep(p, [proc EXCEPT !.pc = "done", !.ended = "raised",
                                 !.exc = ClientExc("ValueError", StatusNone,
                                                   "Scrum update already exists for "
                                                       \o DateStr(proc.date))],
                          scrum.table)
           ELSE ScrumStep(p, [proc EXCEPT !.pc = "create"], scrum.table)

\* A variant whose table has no unique constraint.
ScrumCreate_unconstrained(p) ==
    LET proc == scrum.procs[p]
    IN  /\ proc.pc = "create"
        /\ ScrumStep(p, [proc EXCEPT !.pc = "tag",
                            !.keys = Range(findall(proc.updates))],
                     scrum.table \cup {[user |-> proc.user, date |-> proc.date,
                                        updates |-> proc.updates]})

\* ScrumUpdate.objects.create: the table's unique (user, date) constraint
\* refuses a second row; otherwise the row is stored and the keys extracted.
ScrumCreate(p) ==
    LET proc == scrum.procs[p]
    IN  /\ proc.pc = "create"
        /\ IF ScrumRows(scrum.table, proc.user, proc.date) # {}
           THEN ScrumStep(p, [proc EXCEPT !.pc = "done", !.ended = "raised",
                                 !.exc = ClientExc("IntegrityError", StatusNone,
                                                   UniqueErrText)],
                          scrum.table)
           ELSE ScrumStep(p, [proc EXCEPT !.pc = "tag",
                                 !.keys = Range(findall(proc.updates))],
                          scrum.table \cup {[user |-> proc.user, date |-> proc.date,
                                             updates |-> proc.updates]})

\* One iteration of the loop over set(issue_keys), in any order of the set.
ScrumTag(p) ==
    LET proc == scrum.procs[p]
    IN  /\ proc.pc = "tag"
        /\ \E issue_key \in proc.keys, tracker \in ScrumTrackers :
              LET r == App_add_comment_to_issue(
                           issue_key, ScrumComment(proc.user, proc.updates), tracker)
                  tried == [proc EXCEPT !.keys = @ \ {issue_key},
                                        !.attempts = Append(@, issue_key)]
              IN  IF r.ended = "returned"
                  THEN ScrumStep(p, [tried EXCEPT !.results = Append(@,
                           [issue_key |-> issue_key, added |-> TRUE,
                            text |-> "Added scrum update to " \o Str(issue_key)])],
                           scrum.table)
                  ELSE IF r.exc.class = "JiraClientError"
                  THEN ScrumStep(p, [tried EXCEPT !.results = Append(@,
                           [issue_key |-> issue_key, added |-> FALSE,
                            text |-> "Failed to add comment to " \o Str(issue_key)
                                     \o ": " \o ExcStr(r.exc)])],
                           scrum.table)
                  ELSE ScrumStep(p, [tried EXCEPT !.pc = "done", !.ended = "raised",
                                        !.exc = r.exc],
                                 scrum.table)

\* The loop is over: (scrum_update, results) is returned.
ScrumReturn(p) ==
    LET proc == scrum.procs[p]
    IN  /\ proc.pc = "tag"
        /\ proc.keys = {}
        /\ ScrumStep(p, [proc EXCEPT !.pc = "done", !.ended = "returned"], scrum.table)

\* Midnight passes.
ScrumMidnight ==
    /\ scrum.today < MaxDays
    /\ scrum' = [scrum EXCEPT !.today = @ + 1]
    /\ UNCHANGED <<revision, profiles, conversation, inflight, last, rw, jira>>

ScrumNext ==
    \/ \E p \in Procs : ScrumCall(p)
    \/ \E p \in Procs : ScrumCheck(p)
    \/ \E p \in Procs : ScrumCreate(p)
    \/ \E p \in Procs : ScrumTag(p)
    \/ \E p \in Procs : ScrumReturn(p)
    \/ ScrumMidnight

ScrumSpec == ScrumInit /\ [][ScrumNext]_vars

(***************************************************************************)
(* The chat turn that collects a scrum update (app ChatView.post)           *)
(***************************************************************************)
\* format_scrum_update(yesterday, today, blockers)
format_scrum_update(yesterday, today, blockers) ==
    <<"Yesterday: ">> \o yesterday \o <<"\n\nToday: ">> \o today
        \o <<"\n\nBlockers: ">> \o blockers

\* The texts of the user turns already in a transcript, and the characters
\* of a stored message.
ChatTexts == { <<"A", "-", "1">>, <<"h", "i">>, <<"B", "-", "2">> }
Chars(message) == CHOOSE c \in ChatTexts : Str(c) = message

MaxHistory == 4

\* The transcripts a request can find: rows of the requesting user.
Histories(u) ==
    UNION { [1..n -> {Row(u, Str(c), TRUE) : c \in ChatTexts}
                        \cup {Row(u, "Hello!", FALSE)}] : n \in 0..MaxHistory }

Reverse(seq) == [i \in 1..Len(seq) |-> seq[Len(seq) + 1 - i]]

\* Conversation.objects.filter(user=u).order_by('-timestamp')[:10]
conversation_history(rows, u) ==
    LET mine == Reverse(SelectSeq(rows, LAMBDA r : r.user = u))
    IN  SubSeq(mine, 1, Min(10, Len(mine)))

\* [msg for msg in conversation_history if msg.is_user_message][-3:]
scrum_parts(history) ==
    LET mine == SelectSeq(history, LAMBDA r : r.is_user_message)
    IN  SubSeq(mine, IF Len(mine) > 3 THEN Len(mine) - 2 ELSE 1, Len(mine))

\* isinstance(intent_result, dict): get_intent_and_parameters returns a dict
\* for a function call and a dict for a text reply.
IsDict(intent) == intent.kind \in {"function", "response"}

\* The orders in which `for issue_key in set(issue_keys)` may take the keys:
\* the iteration order of a set of strings changes with the hash seed of the
\* interpreter.
KeyOrders(keys) ==
    {order \in [1..Cardinality(keys) -> keys] :
        \A i, j \in 1..Cardinality(keys) : i # j => order[i] # order[j]}

\* The tagging loop of create_scrum_update run to its end over the keys in
\* the given order, the tracker answering alike for every key: the keys
\* add_comment_to_issue was called for, the results, whether a call failed,
\* and whether the loop ended.
RECURSIVE TagAll(_, _, _, _)
TagAll(order, comment, tracker, done) ==
    IF order = <<>>
    THEN [ended |-> "returned", exc |-> NoClientExc, results |-> done.results,
          attempts |-> done.attempts, failed |-> done.failed]
    ELSE LET k == Head(order)
             r == App_add_comment_to_issue(k, comment, tracker)
             attempts == Append(done.attempts, k)
         IN  IF r.ended = "returned"
             THEN TagAll(Tail(order), comment, tracker,
                         [done EXCEPT !.attempts = attempts,
                                      !.results = Append(@, "Added scrum update to "
                                                            \o Str(k))])
             ELSE IF r.exc.class = "JiraClientError"
             THEN TagAll(Tail(order), comment, tracker,
                         [attempts |-> attempts, failed |-> TRUE,
                          results |-> Append(done.results,
                                             "Failed to add comment to " \o Str(k)
                                                 \o ": " \o ExcStr(r.exc))])
             ELSE [ended |-> "raised", exc |-> r.exc, results |-> done.results,
                   attempts |-> attempts, failed |-> TRUE]

RECURSIVE JoinLines(_)
JoinLines(lines) ==
    IF lines = <<>> THEN ""
    ELSE IF Len(lines) = 1 THEN lines[1]
    ELSE lines[1] \o "\n" \o JoinLines(Tail(lines))

\* The branch of ChatView.post that compiles the scrum update, from the
\* parts the request read and the ScrumUpdate table as the existence check
\* of create_scrum_update finds it (checked) and as its insert finds it
\* (table), which are two queries: what it stores, the calls it makes on the
\* tracker client, whom it notifies and how the request ends, one outcome for
\* each order of the tagging loop.
App_scrum_branch(u, message, env, intent, parts, checked, table, today) ==
    LET full_update == format_scrum_update(Chars(parts[1].message),
                                           Chars(parts[2].message),
                                           Chars(parts[3].message))
        tracker == [issue |-> IF env.op = "ok" THEN 200 ELSE 500, add_comment |-> 200]
        stored == table \cup {[user |-> u, date |-> today, updates |-> full_update]}
        inbound == Row(u, message, TRUE)
        comment == ScrumComment(u, full_update)
        Calls(tagged) ==
            [i \in 1..Len(tagged.attempts) |->
                [name |-> "add_comment_to_issue",
                 kwargs |-> [issue_key |-> Str(tagged.attempts[i]),
                             comment |-> Str(comment)]]]
        OpResult(tagged) ==
            IF tagged.attempts = <<>> THEN "not_called"
            ELSE IF tagged.failed THEN "raised" ELSE "ok"
        Refused(text) ==
            [turn |-> Turn(Response(ErrorBody("Unexpected error: Error saving scrum "
                                              \o "update: " \o text),
                                    HTTP_500_INTERNAL_SERVER_ERROR),
                           <<inbound>>, intent, <<>>, "not_called", "not_called", 1),
             table |-> table, notified |-> <<>>]
        Thanks(results) ==
            "Thanks for providing your scrum update! I've saved it and "
                \o (IF results # <<>>
                    THEN "here's what I did with it:\n" \o JoinLines(results)
                    ELSE "I didn't find any Jira issues to tag.")
        Ended(tagged) ==
            IF tagged.ended = "raised"
            THEN [turn |-> Turn(Response(ErrorBody("Unexpected error: Error saving "
                                                   \o "scrum update: "
                                                   \o ExcStr(tagged.exc)),
                                         HTTP_500_INTERNAL_SERVER_ERROR),
                                <<inbound>>, intent, Calls(tagged), OpResult(tagged),
                                "not_called", 1),
                  table |-> stored, notified |-> <<>>]
            ELSE [turn |-> Turn(Response([NoBody EXCEPT !.message = Thanks(tagged.results)],
                                         HTTP_200_OK),
                                <<inbound, Row(u, Thanks(tagged.results), FALSE)>>,
                                intent, Calls(tagged), OpResult(tagged),
                                "not_called", 1),
                  table |-> stored,
                  notified |-> IF env.op # "ok" /\ tagged.results # <<>>
                               THEN <<u>> ELSE <<>>]
    IN  IF get_scrum_update_found(checked, u, today)
        THEN \* create_scrum_update raises ValueError
             {Refused("Scrum update already exists for " \o DateStr(today))}
        ELSE IF get_scrum_update_found(table, u, today)
        THEN \* another request stored its update after the check: the insert
             \* raises IntegrityError
             {Refused(UniqueErrText)}
        ELSE {Ended(TagAll(order, comment, tracker,
                           [attempts |-> <<>>, results |-> <<>>, failed |-> FALSE])) :
                 order \in KeyOrders(DistinctKeys(full_update))}

\* ChatView.post of the app revision with the scrum update it may collect,
\* from the rows and the scrum update the request read (found) and the
\* ScrumUpdate table as create_scrum_update finds it at its check and at its
\* insert: the branch is entered when the request found no update for today
\* and the classifier's result is not a dict.  The outcomes the request can
\* have.
App_ChatView_post_scrum(u, message, profile, env, rows, found, checked, table, today) ==
    LET turn == App_ChatView_post(u, message, profile, env)
        parts == scrum_parts(conversation_history(rows, u))
    IN  IF /\ turn.intent.kind \in {"function", "response"}
           /\ ~found
           /\ ~IsDict(turn.intent)
           /\ Len(parts) >= 3
        THEN App_scrum_branch(u, message, env, turn.intent, parts, checked, table,
                              today)
        ELSE {[turn |-> turn, table |-> table, notified |-> <<>>]}

ScrumChatInit ==
    /\ revision = "app"
    /\ profiles = [u \in Users |-> [exists |-> TRUE, jira_user_id |-> "acct-" \o u]]
    /\ conversation \in Histories("u1")
    /\ inflight = NoThreads
    /\ last = NoRequest
    /\ rw = RwIdle
    /\ jira = JiraIdle
    /\ scrum \in {[ScrumIdle EXCEPT !.today = 1, !.table = t] :
                     t \in {{}, {[user |-> "u1", date |-> 1, updates |-> <<"h", "i">>]}}}


(***************************************************************************)
(* Properties of scrum updates                                              *)
(***************************************************************************)
\* The two ways a submission is refused for an update that already exists.
Conflict(proc) ==
    proc.pc = "done" /\ proc.exc.class \in {"ValueError", "IntegrityError"}

\* The submission stored its update.
Accepted(proc) == proc.pc = "tag" \/ (proc.pc = "done" /\ ~Conflict(proc))

\* C13: whatever the order and interleaving of scrum update submissions, the
\* table holds at most one update per user and date; of two submissions for
\* the same user and date at most one is accepted, the refused one ends in a
\* conflict error without having sent any tagging comment, and no stored
\* update is ever changed or removed.
C13_OneUpdatePerUserAndDate ==
    /\ [](/\ \A u \in Users, d \in 1..MaxDays :
                Cardinality(ScrumRows(scrum.table, u, d)) <= 1
          /\ \A p \in Procs : \A q \in Procs \ {p} :
                (/\ scrum.procs[p].user = scrum.procs[q].user
                 /\ scrum.procs[p].date = scrum.procs[q].date)
                    => ~(Accepted(scrum.procs[p]) /\ Accepted(scrum.procs[q]))
          /\ \A p \in Procs :
                Conflict(scrum.procs[p])
                    => /\ scrum.procs[p].ended = "raised"
                       /\ scrum.procs[p].attempts = <<>>
                       /\ scrum.procs[p].results = <<>>)
    /\ [][\A row \in scrum.table : row \in scrum.table']_vars

\* Two concurrent submissions of one user both passed the existence check;
\* the second insert was refused.
C13_Witness ==
    /\ Accepted(scrum.procs["p1"])
    /\ scrum.procs["p2"].pc = "done"
    /\ scrum.procs["p2"].exc.class = "IntegrityError"
    /\ scrum.procs["p2"].user = scrum.procs["p1"].user
    /\ scrum.procs["p2"].date = scrum.procs["p1"].date
    /\ scrum.procs["p2"].updates # scrum.procs["p1"].updates

\* Each key of the set occurs exactly once in the sequence of keys.
OncePerKey(keys, seq) ==
    /\ Len(seq) = Cardinality(keys)
    /\ \A k \in keys : \E i \in 1..Len(seq) : seq[i] = k

\* C15: a submission that stored its update ends by returning, having made
\* exactly one tagging attempt per distinct issue key of the text whatever
\* the tracker answered to each, with exactly one result entry per distinct
\* key, and its update is still stored.
C15_OneAttemptPerKey ==
    \A p \in Procs :
        LET proc == scrum.procs[p]
        IN  (proc.pc = "done" /\ ~Conflict(proc))
                => /\ proc.ended = "returned"
                   /\ OncePerKey(DistinctKeys(proc.updates), proc.attempts)
                   /\ OncePerKey(DistinctKeys(proc.updates),
                                 [i \in 1..Len(proc.results) |-> proc.results[i].issue_key])
                   /\ [user |-> proc.user, date |-> proc.date,
                       updates |-> proc.updates] \in scrum.table

(***************************************************************************)
(* Properties of the tracker client                                         *)
(***************************************************************************)
Done(rev, op) == jira.state = "done" /\ jira.rev = rev /\ jira.op = op

\* The status asked for is given and is not, whatever the case, among the
\* valid status names the client holds (cached, or answered by the tracker).
InvalidStatus(c) ==
    /\ c.status # <<>>
    /\ c.cache.valid_statuses # <<>> \/ Success(c.tracker.statuses)
    /\ \A n \in Range(valid_statuses(c.cache, c.names)) : upper(n) # upper(c.status)

\* C16: get_user_issues with a status that is not, whatever the case, among
\* the valid status names fails with a ValidationError whose message lists
\* the valid names, and search_issues is never called.
C16_InvalidStatusFailsValidation ==
    (Done("app", "get_user_issues") /\ InvalidStatus(jira))
        => /\ jira.run.ended = "raised"
           /\ jira.run.exc =
                  ValidationError("Invalid status: " \o Str(jira.status)
                                  \o ". Valid statuses are: "
                                  \o Join(valid_statuses(jira.cache, jira.names)))
           /\ "search_issues" \notin Range(jira.run.calls)

\* new_status is contained in no transition name, whatever the case (so it
\* equals none either).
NoMatch(names, new_status) ==
    \A n \in Range(names) : ~IsSubstring(lower(new_status), lower(n))

\* C17: update_issue_status with a new_status matching no available
\* transition, neither exactly nor as a substring, fails with an error whose
\* message lists the transition names, and transition_issue is never called;
\* in both revisions, once the tracker answered the lookups.
C17_NoMatchListsTransitions ==
    /\ (/\ Done("app", "update_issue_status")
        /\ validate_issue_key(jira.issue_key) = NoClientExc
        /\ Success(jira.tracker.issue) /\ Success(jira.tracker.transitions)
        /\ NoMatch(jira.names, jira.new_status))
           => /\ jira.run.ended = "raised"
              /\ jira.run.exc.msg =
                     "Unexpected error updating issue status: "
                     \o "['Invalid status transition. Valid statuses are: "
                     \o Join(DictKeys(jira.names)) \o "']"
              /\ "transition_issue" \notin Range(jira.run.calls)
    /\ (/\ Done("backend", "update_issue_status")
        /\ Success(jira.tracker[backend_jira_max_retries].issue)
        /\ NoMatch(jira.names, jira.new_status))
           => /\ jira.run.ended = "raised"
              /\ jira.run.exc.msg =
                     "ValueError: Invalid status '" \o Str(jira.new_status)
                     \o "'. Valid transitions are: " \o Join(jira.names)
              /\ "transition_issue" \notin Range(jira.run.calls)

C17_Witness ==
    /\ Done("app", "update_issue_status")
    /\ jira.names = <<<<"A", "b">>, <<"B", "a">>>>
    /\ jira.new_status = <<"b", "b">>
    /\ jira.run.calls = <<"issue", "transitions">>
    /\ jira.run.exc.class = "JiraClientError"

\* The transition names, lowercased, that equal new_status or contain it.
ExactMatches(names, new_status) ==
    {k \in Range(DictKeys(names)) : k = lower(new_status)}
PartialMatches(names, new_status) ==
    {k \in Range(DictKeys(names)) : IsSubstring(lower(new_status), k)}

\* C18: once the tracker answered the lookups, update_issue_status performs
\* the transition whose name equals new_status whatever the case; without
\* such a name, the only one that contains new_status; and when more than
\* one contains it, it performs none and fails with a ValidationError
\* listing the transition names.
C18_ExactThenUniqueSubstring ==
    (/\ Done("app", "update_issue_status")
     /\ validate_issue_key(jira.issue_key) = NoClientExc
     /\ Success(jira.tracker.issue) /\ Success(jira.tracker.transitions))
        => LET exact == ExactMatches(jira.names, jira.new_status)
               partial == PartialMatches(jira.names, jira.new_status)
               performed == "transition_issue" \in Range(jira.run.calls)
           IN  /\ exact # {}
                  => /\ performed
                     /\ jira.run.ended = "returned"
                            => lower(jira.run.value[2]) \in exact
               /\ (exact = {} /\ Cardinality(partial) = 1)
                  => /\ performed
                     /\ jira.run.ended = "returned"
                            => lower(jira.run.value[2]) \in partial
               /\ (exact = {} /\ Cardinality(partial) > 1)
                  => /\ ~performed
                     /\ jira.run.exc =
                            ValidationError(
                                "Invalid status transition. Valid statuses are: "
                                \o Join(DictKeys(jira.names)))

\* C19: create_issue with project_key, summary or issue_type missing or
\* empty fails with a ValidationError without any call to the tracker, in the
\* app revision and in the backend revision alike.
C19_MissingFieldFailsValidation ==
    (/\ jira.state = "done" /\ jira.op = "create_issue"
     /\ Falsy(jira.project_key) \/ Falsy(jira.summary) \/ Falsy(jira.issue_type))
        => /\ jira.run.ended = "raised"
           /\ jira.run.exc.class = "ValidationError"
           /\ jira.run.calls = <<>>

\* C20: when the tracker answers 403 to the issue lookup of
\* add_comment_to_issue or update_issue_status, the caller gets a
\* JiraClientError with status_code 403; for 404 it gets a ValidationError
\* naming the issue; and the two differ in class or in status code.
C20_ForbiddenDistinctFromNotFound ==
    (/\ jira.state = "done" /\ jira.rev = "app"
     /\ jira.op \in {"add_comment_to_issue", "update_issue_status"}
     /\ validate_issue_key(jira.issue_key) = NoClientExc)
        => /\ jira.tracker.issue = 403
              => /\ jira.run.exc = JiraClientError("Permission denied to access the issue", 403)
                 /\ LET nf == JiraRun([jira EXCEPT !.tracker.issue = 404]).exc
                    IN  <<jira.run.exc.class, jira.run.exc.status_code>>
                            # <<nf.class, nf.status_code>>
           /\ jira.tracker.issue = 404
              => jira.run.exc =
                     ValidationError("Issue " \o Str(jira.issue_key) \o " not found")

(***************************************************************************)
(* Properties of the chat turn that collects a scrum update                 *)
(***************************************************************************)
\* The texts of the user's own turns in a transcript, oldest first.
UserTurns(rows, u) == SelectSeq(rows, LAMBDA r : r.user = u /\ r.is_user_message)

\* The update compiled from the last three turns: yesterday, today, blockers.
CompiledUpdate(turns) ==
    format_scrum_update(Chars(turns[Len(turns) - 2].message),
                        Chars(turns[Len(turns) - 1].message),
                        Chars(turns[Len(turns)].message))

\* C14: a chat turn of a user without a scrum update for today, in which the
\* classifier returns a plain-text reply while the transcript holds at least
\* three turns of the user, leaves exactly one scrum update stored for the
\* user and today, whose body is the formatted concatenation of the three
\* turns as yesterday / today / blockers.
C14_ThreeTurnsStoreScrumUpdate ==
    (/\ last.rev = "app"
     /\ last.turn.intent.kind = "response"
     /\ ~last.found
     /\ Len(UserTurns(last.history, last.user)) >= 3)
        => ScrumRows(scrum.table, last.user, scrum.today)
               = {[user |-> last.user, date |-> scrum.today,
                   updates |-> CompiledUpdate(UserTurns(last.history, last.user))]}

(***************************************************************************)
(* Construction of the app's tracker client                                 *)
(***************************************************************************)
MAX_RETRIES == 3
RETRY_DELAY == 1
\* The largest max_retries argument a construction is given.
MaxInitRetries == 2
\* The retry_delay arguments; 0 stands for an argument left out.
RetryDelays == {0, 2}
\* A credential argument or environment variable: left out, empty or set.
Credentials == {None, "", "x"}
\* The environment: the three JIRA_* variables all unset or all set.
CredentialEnvs == {[JIRA_SERVER_URL |-> None, JIRA_USER_EMAIL |-> None, JIRA_API_TOKEN |-> None], [JIRA_SERVER_URL |-> "e", JIRA_USER_EMAIL |-> "e", JIRA_API_TOKEN |-> "e"]}

JiraAuthenticationError(msg, status_code) == ClientExc("JiraAuthenticationError", status_code, msg)
JiraConnectionError(msg, status_code) == ClientExc("JiraConnectionError", status_code, msg)
RequestException == ClientExc("RequestException", StatusNone, "Connection refused")

\* What one attempt to connect (JIRA(...) and myself()) raises; NoClientExc
\* when the tracker accepts the credentials.
ConnectOutcomes == {NoClientExc, JIRAError(401), JIRAError(404), JIRAError(500), RequestException}

\* max_retries or MAX_RETRIES, retry_delay or RETRY_DELAY.
IntOr(a, b) == IF a = 0 THEN b ELSE a

\* The except clauses of __init__: the exception the constructor raises for
\* an exception e of its try block.
App_init_except(e, server_url) ==
    IF e.class = "JIRAError"
    THEN IF e.status_code = 401
         THEN JiraAuthenticationError("Invalid credentials", 401)
         ELSE IF e.status_code = 404
              THEN JiraConnectionError("Invalid Jira server URL: " \o server_url, 404)
              ELSE JiraClientError("JIRA API Error: " \o ExcStr(e), e.status_code)
    ELSE IF e.class = "RequestException"
         THEN JiraConnectionError("Connection error: " \o ExcStr(e), StatusNone)
         ELSE JiraClientError("Unexpected error: " \o ExcStr(e), StatusNone)

\* The constructions: the arguments and the environment they run in.
Constructions ==
    [state : {"idle"}, rev : {"app"}, op : {"__init__"},
     arg_server_url : Credentials, arg_user_email : Credentials, arg_api_token : Credentials,
     env : CredentialEnvs, arg_max_retries : 0..MaxInitRetries, arg_retry_delay : RetryDelays,
     server_url : {None}, user_email : {None}, api_token : {None},
     max_retries : {0}, retry_delay : {0}, attempt : {0},
     answers : {<<>>}, sleeps : {<<>>}, client : {None}, exc : {NoClientExc}]

ClientInit ==
    /\ revision = "app"
    /\ profiles = [u \in Users |-> None]
    /\ conversation = <<>>
    /\ inflight = NoThreads
    /\ last = NoRequest
    /\ rw = RwIdle
    /\ scrum = ScrumIdle
    /\ jira \in Constructions

\* __init__ up to the call of _initialize_client: the settings are taken from
\* the arguments or the environment, and a missing credential raises inside
\* the try block.
App_init ==
    /\ jira.state = "idle"
    /\ LET server_url == PyOr(jira.arg_server_url, jira.env.JIRA_SERVER_URL)
           user_email == PyOr(jira.arg_user_email, jira.env.JIRA_USER_EMAIL)
           api_token == PyOr(jira.arg_api_token, jira.env.JIRA_API_TOKEN)
           read == [jira EXCEPT !.max_retries = IntOr(jira.arg_max_retries, MAX_RETRIES),
                                !.retry_delay = IntOr(jira.arg_retry_delay, RETRY_DELAY),
                                !.server_url = server_url,
                                !.user_email = user_email,
                                !.api_token = api_token]
       IN  IF Falsy(server_url) \/ Falsy(user_email) \/ Falsy(api_token)
           THEN jira' = [read EXCEPT !.state = "done",
                                     !.exc = App_init_except(
                                                 JiraAuthenticationError("Missing required Jira credentials. Please check environment variables.", StatusNone),
                                                 server_url)]
           ELSE jira' = [read EXCEPT !.state = "connecting"]
    /\ UNCHANGED <<revision, profiles, conversation, inflight, last, rw, scrum>>

\* One round of the loop of _initialize_client: the connection is tried; a
\* failure of any kind is followed by a sleep and another round, and on the
\* last round by a JiraClientError that the constructor's except clauses map.
App_initialize_client ==
    /\ jira.state = "connecting"
    /\ \E answer \in ConnectOutcomes :
          LET tried == [jira EXCEPT !.answers = Append(@, answer)]
          IN  IF answer = NoClientExc
              THEN jira' = [tried EXCEPT !.state = "done", !.client = "client"]
              ELSE IF jira.attempt < jira.max_retries - 1
                   THEN jira' = [tried EXCEPT !.attempt = @ + 1,
                                              !.sleeps = Append(@, jira.retry_delay * (jira.attempt + 1))]
                   ELSE jira' = [tried EXCEPT !.state = "done",
                                              !.exc = App_init_except(
                                                          JiraClientError("Failed to initialize Jira client after all retry attempts", StatusNone),
                                                          jira.server_url)]
    /\ UNCHANGED <<revision, profiles, conversation, inflight, last, rw, scrum>>

ClientNext == App_init \/ App_initialize_client

ClientSpec == ClientInit /\ [][ClientNext]_vars

\* The construction was given or found no value for some credential.
CredentialMissing == Falsy(jira.server_url) \/ Falsy(jira.user_email) \/ Falsy(jira.api_token)

\* C21: constructing the tracker client fails with a JiraAuthenticationError
\* when a credential is missing, and with JiraAuthenticationError("Invalid
\* credentials", 401) when the tracker answers 401 to a connection attempt;
\* an attempt answered with 401 is the last attempt of the construction.
C21_AuthFailureIsAuthenticationError ==
    jira.op = "__init__" =>
        /\ (jira.state = "done" /\ CredentialMissing)
              => jira.exc.class = "JiraAuthenticationError"
        /\ \A i \in 1..Len(jira.answers) :
              jira.answers[i] = JIRAError(401)
                  => /\ i = Len(jira.answers)
                     /\ jira.state = "done"
                     /\ jira.exc = JiraAuthenticationError("Invalid credentials", 401)

(***************************************************************************)
(* Comments with mentions (app revision), over the cache of tracker users   *)
(***************************************************************************)
CACHE_TTL == 300
\* The comments one behaviour posts, and the seconds it lasts.
MaxComments == 2
MaxNow == 600
\* The seconds that pass between two steps of the calls.
TickSteps == {150, 300}
MentionIds == {"m1", "m2"}
\* mentions: left out (the empty list behaves alike) or user ids, repeated or not.
MentionLists == {<<>>} \cup {<<a>> : a \in MentionIds} \cup {<<a, b>> : a, b \in MentionIds}
Comments == {"fix", ""}

\* cache.get: an entry is a hit until its expiry time is reached.
CacheHit(expires, now) == now < expires

\* ' '.join(f'[~{uid}]' for uid in mentions if uid in user_info)
RECURSIVE mentions_text(_, _)
mentions_text(mentions, user_info) ==
    IF mentions = <<>> THEN ""
    ELSE LET rest == mentions_text(Tail(mentions), user_info)
         IN  IF Head(mentions) \notin user_info THEN rest
             ELSE IF rest = "" THEN "[~" \o Head(mentions) \o "]"
             ELSE "[~" \o Head(mentions) \o "] " \o rest

\* _format_mentions tagging every mention, resolved or not.
App_format_mentions_unfiltered(comment, mentions, user_info) ==
    IF mentions = <<>> THEN comment
    ELSE LET tags == mentions_text(mentions, MentionIds)
         IN  IF tags # "" THEN tags \o " " \o comment ELSE comment

\* _format_mentions(comment, mentions), once its loop has filled user_info:
\* the text it returns.
App_format_mentions(comment, mentions, user_info) ==
    IF mentions = <<>> THEN comment
    ELSE LET tags == mentions_text(mentions, user_info)
         IN  IF tags # "" THEN tags \o " " \o comment ELSE comment

\* The calls of add_comment_to_issue that run at the same time.
MentionProcs == {"p1", "p2"}

\* A call of add_comment_to_issue on its way: where it stands, its
\* arguments, the tracker's answers to its issue lookup and comment request,
\* the mention its loop is at, the ids the cache answered (known), user_info
\* and the requests it made to the tracker.
CallIdle ==
    [pc |-> "idle", issue_key |-> <<>>, comment |-> "", mentions |-> <<>>,
     tracker |-> [issue |-> 200, add_comment |-> 200], i |-> 0, known |-> {},
     user_info |-> {}, calls |-> <<>>]

\* The arguments of the calls and the tracker's answers to them: everything
\* for the first call; the second, which overlaps it, is accepted by the
\* tracker and mentions m1, or m1 and m2.
CallInputs(p) ==
    IF p = "p1"
    THEN [issue_key : {<<"A", "-", "1">>, <<"a", "1">>}, comment : Comments,
          mentions : MentionLists,
          tracker : [issue : {200, 404}, add_comment : {200, 400}]]
    ELSE [issue_key : {<<"A", "-", "1">>}, comment : {"fix"},
          mentions : {<<"m1">>, <<"m1", "m2">>},
          tracker : {[issue |-> 200, add_comment |-> 200]}]

NoComment == [issue_key |-> <<>>, comment |-> "", mentions |-> <<>>, known |-> {}, tracker |-> [issue |-> 200, add_comment |-> 200], run |-> ClientReturn(<<>>, <<>>)]

MentionInit ==
    /\ revision = "app"
    /\ profiles = [u \in Users |-> None]
    /\ conversation = <<>>
    /\ inflight = NoThreads
    /\ last = NoRequest
    /\ rw = RwIdle
    /\ scrum = ScrumIdle
    /\ \E directory \in [MentionIds -> {200, 404}] :
          jira = [state |-> "ready", rev |-> "app", op |-> "add_comment_to_issue",
                  now |-> 0, comments |-> 0, directory |-> directory,
                  cache |-> [m \in MentionIds |-> 0],
                  procs |-> [p \in MentionProcs |-> CallIdle], last |-> NoComment]

\* The call goes on to the next mention of its loop, or leaves the loop.
NextMention(call) ==
    IF call.i < Len(call.mentions)
    THEN [call EXCEPT !.pc = "get", !.i = @ + 1]
    ELSE [call EXCEPT !.pc = "issue"]

\* The run of a call from _format_mentions' return on: the requests for the
\* issue and the comment follow the lookups of the mentions.
CallRun(call) ==
    LET text == App_format_mentions(call.comment, call.mentions, call.user_info)
        run == App_add_comment_to_issue(call.issue_key, text, call.tracker)
    IN  [run EXCEPT !.calls = call.calls \o @]

\* The call of p goes on as call: the client it runs in changes to client.
CallStep(p, call, client) ==
    /\ jira' = [client EXCEPT !.procs[p] = call]
    /\ UNCHANGED <<revision, profiles, conversation, inflight, last, rw, scrum>>

\* The call of p ends.
CallEnd(p, call) ==
    CallStep(p, CallIdle,
             [jira EXCEPT !.last = [issue_key |-> call.issue_key,
                                    comment |-> call.comment,
                                    mentions |-> call.mentions, known |-> call.known,
                                    tracker |-> call.tracker, run |-> CallRun(call)]])

\* add_comment_to_issue is called: the key is validated, and _format_mentions
\* returns at once when no mention is given.
AddComment(p) ==
    /\ jira.op = "add_comment_to_issue"
    /\ jira.procs[p].pc = "idle"
    /\ jira.comments < MaxComments
    /\ \E in \in CallInputs(p) :
          \E call \in {[CallIdle EXCEPT !.issue_key = in.issue_key,
                                        !.comment = in.comment,
                                        !.mentions = in.mentions,
                                        !.tracker = in.tracker]},
             client \in {[jira EXCEPT !.comments = @ + 1]} :
             IF validate_issue_key(in.issue_key) # NoClientExc
             THEN /\ jira' = [client EXCEPT
                                 !.last = [issue_key |-> call.issue_key,
                                           comment |-> call.comment,
                                           mentions |-> call.mentions,
                                           known |-> {}, tracker |-> call.tracker,
                                           run |-> CallRun(call)]]
                  /\ UNCHANGED <<revision, profiles, conversation, inflight, last,
                                 rw, scrum>>
             ELSE CallStep(p, NextMention(call), client)

\* _format_mentions, cache.get: an entry found fills user_info.
CacheGet(p) ==
    /\ jira.op = "add_comment_to_issue"
    /\ jira.procs[p].pc = "get"
    /\ \E call \in {jira.procs[p]} :
          \E user_id \in {call.mentions[call.i]} :
             IF CacheHit(jira.cache[user_id], jira.now)
             THEN CallStep(p, NextMention([call EXCEPT !.known = @ \cup {user_id},
                                                        !.user_info = @ \cup {user_id}]),
                           jira)
             ELSE CallStep(p, [call EXCEPT !.pc = "user"], jira)

\* _format_mentions, self.client.user: the tracker answers the lookup; a
\* mention it does not find is skipped.
LookupUser(p) ==
    /\ jira.op = "add_comment_to_issue"
    /\ jira.procs[p].pc = "user"
    /\ \E call \in {[jira.procs[p] EXCEPT !.calls = Append(@, "user")]} :
          IF Success(jira.directory[call.mentions[call.i]])
          THEN CallStep(p, [call EXCEPT !.pc = "set"], jira)
          ELSE CallStep(p, NextMention(call), jira)

\* _format_mentions, cache.set: the user is stored for CACHE_TTL seconds
\* from now on.
CacheSet(p) ==
    /\ jira.op = "add_comment_to_issue"
    /\ jira.procs[p].pc = "set"
    /\ \E call \in {jira.procs[p]} :
          \E user_id \in {call.mentions[call.i]} :
             CallStep(p, NextMention([call EXCEPT !.user_info = @ \cup {user_id}]),
                      [jira EXCEPT !.cache[user_id] = jira.now + CACHE_TTL])

\* add_comment_to_issue, self.client.issue: a failed lookup ends the call.
FetchIssue(p) ==
    /\ jira.op = "add_comment_to_issue"
    /\ jira.procs[p].pc = "issue"
    /\ \E call \in {jira.procs[p]} :
          IF Success(call.tracker.issue)
          THEN CallStep(p, [call EXCEPT !.pc = "add_comment"], jira)
          ELSE CallEnd(p, call)

\* add_comment_to_issue, self.client.add_comment and the return.
PostComment(p) ==
    /\ jira.op = "add_comment_to_issue"
    /\ jira.procs[p].pc = "add_comment"
    /\ CallEnd(p, jira.procs[p])

\* Time passes, between two calls or while a call waits for the tracker.
Tick ==
    /\ jira.state = "ready"
    /\ \E d \in TickSteps :
          /\ jira.now + d <= MaxNow
          /\ jira' = [jira EXCEPT !.now = @ + d]
    /\ UNCHANGED <<revision, profiles, conversation, inflight, last, rw, scrum>>

MentionNext ==
    \/ Tick
    \/ \E p \in MentionProcs :
          \/ AddComment(p)
          \/ CacheGet(p)
          \/ LookupUser(p)
          \/ CacheSet(p)
          \/ FetchIssue(p)
          \/ PostComment(p)

MentionSpec == MentionInit /\ [][MentionNext]_vars

\* The mentions that resolve to a tracker user: the cache or the tracker
\* answers their lookup.
Resolved(c) == SelectSeq(c.mentions, LAMBDA m : m \in c.known \/ Success(jira.directory[m]))

ISSUES_TTL == 60
\* The calls one behaviour makes, the seconds it lasts and the issues it
\* creates.
MaxClientCalls == 3
MaxWait == 60
MaxCreated == 1
WaitSteps == {30, 60}
\* The tracker's statuses, which are also the names of its transitions.
StatusList == <<<<"A">>, <<"B">>>>
\* The status filters asked for: none, or a status.
StatusFilters == {<<>>} \cup Range(StatusList)
MaxResultsArgs == {1, 50}
\* The tracker holds one issue, assigned to u1, and the issues created.
TheIssue == <<"A", "-", "1">>
TheAssignee == "u1"
IssueNumbers == <<"1", "2", "3">>
IssueKey(n) == <<"A", "-", IssueNumbers[n]>>

\* The calls of the client that run at the same time.
IssueProcs == {"p1", "p2"}

\* The keys of the issue-list cache: jira_issues_{user}_{status}_{max_results}.
\* Every filter for the assignee, every limit without a filter, and one key
\* for another user.
CacheKeys ==
    [user : {TheAssignee}, status : StatusFilters, max_results : {50}]
        \cup [user : {TheAssignee}, status : {<<>>}, max_results : MaxResultsArgs]
        \cup {[user |-> u, status |-> <<>>, max_results |-> 50] :
                 u \in Users \ {TheAssignee}}
NoEntry == [expires |-> 0, value |-> <<>>]

\* _format_issue, reduced to the key and the status name.
format_issue(key, status) == [key |-> key, status |-> status]

\* search_issues for the query _build_jql_query builds: the issues assigned
\* to the user, in the status asked for when one is, ORDER BY updated DESC;
\* held lists the tracker's issues, the one updated last first.
search_issues(jira_user_id, status, held) ==
    LET found == SelectSeq(held, LAMBDA issue :
                     /\ issue.assignee = jira_user_id
                     /\ (status = <<>> \/ status = issue.status))
    IN  [i \in 1..Len(found) |-> format_issue(found[i].key, found[i].status)]

\* issues[:max_results]
Truncate(s, n) == SubSeq(s, 1, Min(Len(s), n))

\* The tracker's issues after a change of one of them: it is the one updated
\* last.
Touched(held, issue) ==
    <<issue>> \o SelectSeq(held, LAMBDA other : other.key # issue.key)

\* The issue of the given key, as the tracker holds it.
HeldIssue(held, key) ==
    CHOOSE issue \in Range(held) : issue.key = key

\* For a cache key, the list stored last: when it was stored, when the call
\* that stored it was made, and the list.
NoFetch == [at |-> -1, called |-> -1, value |-> <<>>]
NoClientCall == [op |-> None, run |-> ClientReturn(<<>>, <<>>)]

\* A call of the client on its way: the request to the tracker it waits
\* for, its arguments and the tracker's answers to its requests, when it was
\* made, whether update_issue_status had succeeded by then (after_update),
\* whether the tracker's issues changed while it ran (disturbed), when it
\* read the issue-list cache and the list stored last for its key at that
\* time (before), the list the search answered (fetched), the status the
\* issue had when update_issue_status looked it up (previous) and the
\* requests made to the tracker.
IssueCallIdle ==
    [pc |-> "idle", op |-> None,
     key |-> [user |-> TheAssignee, status |-> <<>>, max_results |-> 0],
     new_status |-> <<>>, assignee |-> "",
     tracker |-> [search_issues |-> 200, transition_issue |-> 200, create_issue |-> 200],
     started |-> 0, after_update |-> FALSE, disturbed |-> FALSE,
     read_at |-> 0, before |-> NoFetch, fetched |-> <<>>, previous |-> <<>>,
     calls |-> <<>>]

\* The arguments of the calls and the tracker's answers to them: everything
\* for the first process; the second, whose calls overlap the first's, asks
\* for the assignee's issues in a status or moves the issue, and is answered.
GetInputs(p) ==
    IF p = "p1"
    THEN [key : CacheKeys, search_issues : {200}]
             \cup [key : [user : {TheAssignee}, status : {<<>>}, max_results : {50}],
                   search_issues : {500}]
    ELSE [key : [user : {TheAssignee}, status : Range(StatusList), max_results : {50}],
          search_issues : {200}]
UpdateInputs(p) ==
    IF p = "p1"
    THEN [new_status : Range(StatusList), transition_issue : {200, 400}]
    ELSE [new_status : Range(StatusList), transition_issue : {200}]
CreateInputs(p) ==
    IF p = "p1"
    THEN [assignee : {"", TheAssignee}, create_issue : {200}]
             \cup [assignee : {TheAssignee}, create_issue : {400}]
    ELSE {}

IssueCacheInit ==
    /\ revision = "app"
    /\ profiles = [u \in Users |-> None]
    /\ conversation = <<>>
    /\ inflight = NoThreads
    /\ last = NoRequest
    /\ rw = RwIdle
    /\ scrum = ScrumIdle
    /\ \E status \in Range(StatusList) :
          jira = [state |-> "ready", rev |-> "app", op |-> "issues",
                  now |-> 0, calls |-> 0, created |-> 0, updated |-> FALSE,
                  held |-> <<[key |-> TheIssue, assignee |-> TheAssignee,
                              status |-> status]>>,
                  cache |-> [k \in CacheKeys |-> NoEntry], statuses_expires |-> 0,
                  fetches |-> [k \in CacheKeys |-> NoFetch],
                  procs |-> [p \in IssueProcs |-> IssueCallIdle],
                  last |-> NoClientCall]

\* The call of p goes on as call: the client it runs in changes to client.
IssueStep(p, call, client) ==
    /\ jira' = [client EXCEPT !.procs[p] = call]
    /\ UNCHANGED <<revision, profiles, conversation, inflight, last, rw, scrum>>

\* The call of p ends as run says, in the client as it then is.
IssueEnd(p, call, run, client) ==
    IssueStep(p, IssueCallIdle,
              [client EXCEPT
                  !.updated = @ \/ (call.op = "update_issue_status"
                                    /\ run.ended = "returned"),
                  !.last = [op |-> call.op, key |-> call.key,
                            after_update |-> call.after_update,
                            disturbed |-> call.disturbed,
                            read_at |-> call.read_at, before |-> call.before,
                            held |-> client.held, run |-> run]])

\* A call begins.
IssueCall(p, op) ==
    [IssueCallIdle EXCEPT !.op = op, !.started = jira.now,
                          !.after_update = jira.updated]

\* The tracker's issues change to held: the calls on their way are told.
Disturbed(client, held) ==
    [client EXCEPT
        !.held = held,
        !.procs = [q \in IssueProcs |->
                      IF client.procs[q].pc = "idle" THEN client.procs[q]
                      ELSE [client.procs[q] EXCEPT !.disturbed = TRUE]]]

\* get_user_issues is called: with a status _build_jql_query looks for the
\* tracker's statuses first.
GetUserIssues(p) ==
    /\ jira.op = "issues"
    /\ jira.procs[p].pc = "idle"
    /\ jira.calls < MaxClientCalls
    /\ \E in \in GetInputs(p) :
          IssueStep(p, [IssueCall(p, "get_user_issues") EXCEPT
                           !.pc = IF in.key.status # <<>> THEN "statuses_get"
                                  ELSE "issues_get",
                           !.key = in.key,
                           !.tracker.search_issues = in.search_issues],
                    [jira EXCEPT !.calls = @ + 1])

\* _build_jql_query, cache.get('jira_valid_statuses'): the status asked for
\* is one of the names found; the tracker is asked when none is cached.
StatusesGet(p) ==
    /\ jira.op = "issues"
    /\ jira.procs[p].pc = "statuses_get"
    /\ IssueStep(p, [jira.procs[p] EXCEPT
                        !.pc = IF CacheHit(jira.statuses_expires, jira.now)
                               THEN "issues_get" ELSE "statuses"],
                 jira)

\* _build_jql_query, self.client.statuses(): the tracker answers with its
\* statuses.
FetchStatuses(p) ==
    /\ jira.op = "issues"
    /\ jira.procs[p].pc = "statuses"
    /\ IssueStep(p, [jira.procs[p] EXCEPT !.pc = "statuses_set",
                                          !.calls = Append(@, "statuses")],
                 jira)

\* _build_jql_query, cache.set: the names are stored for CACHE_TTL seconds
\* from now on, and the status asked for is one of them.
StatusesSet(p) ==
    /\ jira.op = "issues"
    /\ jira.procs[p].pc = "statuses_set"
    /\ IssueStep(p, [jira.procs[p] EXCEPT !.pc = "issues_get"],
                 [jira EXCEPT !.statuses_expires = jira.now + CACHE_TTL])

\* get_user_issues, lines 242-248: the cached list is returned when the
\* cache holds one that is not empty; the search is requested otherwise.
IssuesRead(p) ==
    /\ jira.op = "issues"
    /\ jira.procs[p].pc = "issues_get"
    /\ \E entry \in {jira.cache[jira.procs[p].key]} :
          \E read \in {[jira.procs[p] EXCEPT
                           !.read_at = jira.now,
                           !.before = jira.fetches[jira.procs[p].key]]} :
             IF CacheHit(entry.expires, jira.now) /\ entry.value # <<>>
             THEN IssueEnd(p, read, ClientReturn(entry.value, read.calls), jira)
             ELSE IssueStep(p, [read EXCEPT !.pc = "search_issues"], jira)

\* get_user_issues, self.client.search_issues: the tracker answers the
\* search with the issues it holds, or fails.
SearchIssues(p) ==
    /\ jira.op = "issues"
    /\ jira.procs[p].pc = "search_issues"
    /\ \E call \in {[jira.procs[p] EXCEPT !.calls = Append(@, "search_issues")]} :
          IF Success(call.tracker.search_issues)
          THEN IssueStep(p, [call EXCEPT
                                !.pc = "set",
                                !.fetched = Truncate(
                                    search_issues(call.key.user, call.key.status,
                                                  jira.held),
                                    call.key.max_results)],
                         jira)
          ELSE IssueEnd(p, call,
                        ClientRaise(App_get_user_issues_except(
                                        JIRAError(call.tracker.search_issues)),
                                    call.calls),
                        jira)

\* get_user_issues, lines 270-273: the list is stored for 60 seconds from
\* now on and returned.
IssuesSet(p) ==
    /\ jira.op = "issues"
    /\ jira.procs[p].pc = "set"
    /\ \E call \in {jira.procs[p]} :
          IssueEnd(p, call, ClientReturn(call.fetched, call.calls),
                   [jira EXCEPT
                       !.cache[call.key] = [expires |-> jira.now + ISSUES_TTL,
                                            value |-> call.fetched],
                       !.fetches[call.key] = [at |-> jira.now,
                                              called |-> call.started,
                                              value |-> call.fetched]])

\* update_issue_status is called for the issue: the key is valid.
UpdateIssueStatus(p) ==
    /\ jira.op = "issues"
    /\ jira.procs[p].pc = "idle"
    /\ jira.calls < MaxClientCalls
    /\ validate_issue_key(TheIssue) = NoClientExc
    /\ \E in \in UpdateInputs(p) :
          IssueStep(p, [IssueCall(p, "update_issue_status") EXCEPT
                           !.pc = "issue",
                           !.new_status = in.new_status,
                           !.tracker.transition_issue = in.transition_issue],
                    [jira EXCEPT !.calls = @ + 1])

\* update_issue_status, the first self.client.issue: the tracker answers
\* with the issue in the status it holds.
UpdateLookupIssue(p) ==
    /\ jira.op = "issues"
    /\ jira.procs[p].pc = "issue"
    /\ IssueStep(p, [jira.procs[p] EXCEPT
                        !.pc = "transitions",
                        !.previous = HeldIssue(jira.held, TheIssue).status,
                        !.calls = Append(@, "issue")],
                 jira)

\* update_issue_status, self.client.transitions and the choice of the
\* transition: the call fails when none matches.
UpdateTransitions(p) ==
    /\ jira.op = "issues"
    /\ jira.procs[p].pc = "transitions"
    /\ \E call \in {[jira.procs[p] EXCEPT !.calls = Append(@, "transitions")]} :
          IF App_transition_id(StatusList, call.new_status) = 0
          THEN IssueEnd(p, call,
                        ClientRaise(
                            App_update_status_except(
                                ValidationError(
                                    "Invalid status transition. Valid statuses are: "
                                    \o Join(DictKeys(StatusList)))),
                            call.calls),
                        jira)
          ELSE IssueStep(p, [call EXCEPT !.pc = "transition_issue"], jira)

\* update_issue_status, self.client.transition_issue: the tracker moves the
\* issue to the status of the transition's name, or refuses.
UpdateTransition(p) ==
    /\ jira.op = "issues"
    /\ jira.procs[p].pc = "transition_issue"
    /\ \E call \in {[jira.procs[p] EXCEPT !.calls = Append(@, "transition_issue")]} :
          IF Success(call.tracker.transition_issue)
          THEN \E moved \in {[HeldIssue(jira.held, TheIssue) EXCEPT
                                 !.status = StatusList[App_transition_id(
                                                StatusList, call.new_status)]]} :
                  \E client \in {Disturbed(jira, Touched(jira.held, moved))} :
                     IssueStep(p, [client.procs[p] EXCEPT
                                      !.pc = "refetch", !.calls = call.calls],
                               client)
          ELSE IssueEnd(p, call,
                        ClientRaise(App_update_status_except(
                                        JIRAError(call.tracker.transition_issue)),
                                    call.calls),
                        jira)

\* update_issue_status, the second self.client.issue and the return: the
\* response holds the status the tracker holds by now and the one found
\* before.
UpdateRefetch(p) ==
    /\ jira.op = "issues"
    /\ jira.procs[p].pc = "refetch"
    /\ \E call \in {[jira.procs[p] EXCEPT !.calls = Append(@, "issue")]} :
          IssueEnd(p, call,
                   ClientReturn(<<TheIssue, HeldIssue(jira.held, TheIssue).status,
                                  call.previous>>,
                                call.calls),
                   jira)

\* create_issue is called with a project key, a summary and an issue type:
\* the assignee is looked up when one is given.
CreateIssue(p) ==
    /\ jira.op = "issues"
    /\ jira.procs[p].pc = "idle"
    /\ jira.calls < MaxClientCalls
    /\ jira.created < MaxCreated
    /\ \E in \in CreateInputs(p) :
          IssueStep(p, [IssueCall(p, "create_issue") EXCEPT
                           !.pc = IF Falsy(in.assignee) THEN "create_issue" ELSE "user",
                           !.assignee = in.assignee,
                           !.tracker.create_issue = in.create_issue],
                    [jira EXCEPT !.calls = @ + 1, !.created = @ + 1])

\* create_issue, self.client.user: the tracker knows the assignee.
CreateLookupUser(p) ==
    /\ jira.op = "issues"
    /\ jira.procs[p].pc = "user"
    /\ IssueStep(p, [jira.procs[p] EXCEPT !.pc = "create_issue",
                                          !.calls = Append(@, "user")],
                 jira)

\* create_issue, self.client.create_issue and the return: the tracker holds
\* one more issue, in its first status, or refuses.
CreateIssuePost(p) ==
    /\ jira.op = "issues"
    /\ jira.procs[p].pc = "create_issue"
    /\ \E call \in {[jira.procs[p] EXCEPT !.calls = Append(@, "create_issue")]} :
          IF Success(call.tracker.create_issue)
          THEN \E issue \in {[key |-> IssueKey(Len(jira.held) + 1),
                              assignee |-> call.assignee,
                              status |-> StatusList[1]]} :
                  IssueEnd(p, call,
                           ClientReturn(<<issue.key, issue.status>>, call.calls),
                           Disturbed(jira, Touched(jira.held, issue)))
          ELSE IssueEnd(p, call,
                        ClientRaise(App_create_issue_except(
                                        JIRAError(call.tracker.create_issue)),
                                    call.calls),
                        jira)

\* Time passes, between two calls or while a call waits for the tracker.
Wait ==
    /\ jira.op = "issues"
    /\ \E d \in WaitSteps :
          /\ jira.now + d <= MaxWait
          /\ jira' = [jira EXCEPT !.now = @ + d]
    /\ UNCHANGED <<revision, profiles, conversation, inflight, last, rw, scrum>>

IssueCacheNext ==
    \/ Wait
    \/ \E p \in IssueProcs :
          \/ GetUserIssues(p)
          \/ StatusesGet(p)
          \/ FetchStatuses(p)
          \/ StatusesSet(p)
          \/ IssuesRead(p)
          \/ SearchIssues(p)
          \/ IssuesSet(p)
          \/ UpdateIssueStatus(p)
          \/ UpdateLookupIssue(p)
          \/ UpdateTransitions(p)
          \/ UpdateTransition(p)
          \/ UpdateRefetch(p)
          \/ CreateIssue(p)
          \/ CreateLookupUser(p)
          \/ CreateIssuePost(p)

IssueCacheSpec == IssueCacheInit /\ [][IssueCacheNext]_vars

\* The call that ended last was a get_user_issues that read the cache less
\* than 60 seconds after the call was made whose list is the one stored last
\* for its key.
FetchedWithinTTL ==
    /\ jira.op = "issues" /\ jira.last.op = "get_user_issues"
    /\ jira.last.before.at >= 0
    /\ jira.last.read_at - jira.last.before.called < ISSUES_TTL

\* It read the cache when no list was stored for its key, or 60 seconds or
\* more after the last was.
EntryExpired ==
    /\ jira.op = "issues" /\ jira.last.op = "get_user_issues"
    /\ \/ jira.last.before.at < 0
       \/ jira.last.read_at - jira.last.before.at >= ISSUES_TTL

\* C23: a get_user_issues call that comes less than 60 seconds after a call
\* with the same (user, status, max_results) that fetched its list from the
\* tracker returns that list, the empty list included, without calling the
\* tracker's search; a call whose key has no entry, or an expired one, and
\* that returns has called the search.
C23_SecondCallServedFromCache ==
    (jira.op = "issues" /\ jira.last.op = "get_user_issues")
        => /\ FetchedWithinTTL
                 => /\ jira.last.run.ended = "returned"
                    /\ jira.last.run.value = jira.last.before.value
                    /\ "search_issues" \notin Range(jira.last.run.calls)
           /\ (EntryExpired /\ jira.last.run.ended = "returned")
                 => "search_issues" \in Range(jira.last.run.calls)

\* C30: a get_user_issues call for the issue's assignee that is made after
\* update_issue_status has succeeded, and during which the tracker's issues
\* do not change, reports the issue with the status the tracker holds,
\* whatever the filter and max_results, and lists it when the tracker's
\* answer to its search lists it.
C30_TrackerWinsOverCache ==
    (/\ jira.op = "issues" /\ jira.last.op = "get_user_issues"
     /\ jira.last.after_update /\ ~jira.last.disturbed
     /\ jira.last.key.user = TheAssignee
     /\ jira.last.run.ended = "returned")
        => LET c == jira.last
               listed == c.run.value
               answer == Truncate(search_issues(c.key.user, c.key.status, c.held),
                                  c.key.max_results)
           IN  /\ \A i \in 1..Len(listed) :
                     listed[i].key = TheIssue
                         => listed[i].status = HeldIssue(c.held, TheIssue).status
               /\ (\E i \in 1..Len(answer) : answer[i].key = TheIssue)
                     => \E i \in 1..Len(listed) : listed[i].key = TheIssue

(***************************************************************************)
(* The context of a chat turn: what the views hand to the classifier and    *)
(* what the classifier sends to the LLM                                     *)
(***************************************************************************)
\* [:10] of the views.
HistoryLimit == 10
\* The longest transcript a request finds.
MaxTranscript == 12

\* Transcripts of numbered messages: all rows of u1, or every sixth row of
\* u2; user and assistant rows alternating, or two user rows in a row.
Transcripts ==
    { [i \in 1..n |-> Row(IF mixed /\ i % 6 = 0 THEN "u2" ELSE "u1",
                          "m" \o ToString(i),
                          IF pairs THEN i % 3 # 0 ELSE i % 2 = 1)] :
        n \in 0..MaxTranscript, mixed \in BOOLEAN, pairs \in BOOLEAN }

\* {'role': 'user' if msg.is_user_message else 'assistant', 'content': msg.message}
HistoryEntry(row) ==
    [role |-> IF row.is_user_message THEN "user" ELSE "assistant", content |-> row.message]

\* backend ChatView.post: of the rows the request read, those of the user,
\* newest first, cut to ten, turned oldest first; the inbound row of the
\* request is already among the rows it reads.
Backend_conversation_history(rows, u) ==
    LET newest == conversation_history(rows, u)
        oldest == Reverse(newest)
    IN  [i \in 1..Len(oldest) |-> HistoryEntry(oldest[i])]

scrum_context == [role |-> "system", content |-> "You are collecting the daily scrum update. Ask for these three things:\n1. What did you do yesterday?\n2. What will you do today?\n3. Are there any blockers?\n\nAfter collecting all three responses, compile them into a well-formatted update."]
scrum_greeting == [role |-> "assistant", content |-> "Good morning! Let's start with your daily scrum update. What did you work on yesterday?"]

\* app ChatView.post: the rows of the user before the inbound row is stored;
\* without a scrum update for today the scrum prompt is put in front, and the
\* greeting behind when the user has no row yet.
App_formatted_history(rows, u, scrum_update_found) ==
    LET newest == conversation_history(rows, u)
        oldest == Reverse(newest)
        formatted == [i \in 1..Len(oldest) |-> HistoryEntry(oldest[i])]
    IN  IF scrum_update_found THEN formatted
        ELSE <<scrum_context>> \o formatted
                 \o (IF newest = <<>> THEN <<scrum_greeting>> ELSE <<>>)

\* The system message of the backend classifier: the conditional expression
\* spans the whole concatenation, so the text depends on jira_user_id.
Backend_system_message(jira_user_id) ==
    IF ~Falsy(jira_user_id)
    THEN "You are a sophisticated Jira assistant ... You are currently assisting Jira user '" \o jira_user_id \o "'."
    ELSE "Provide a user-friendly summary and context of the required information in plain english. ..."

App_system_message == "You are a helpful assistant that interacts with Jira. ..."

\* get_intent_and_parameters: the messages of the completion call.
Backend_messages(user_message, history, jira_user_id) ==
    <<[role |-> "system", content |-> Backend_system_message(jira_user_id)]>>
        \o history \o <<[role |-> "user", content |-> user_message]>>

App_messages(user_message, history) ==
    <<[role |-> "system", content |-> App_system_message]>>
        \o history \o <<[role |-> "user", content |-> user_message]>>

\* The replies of the classifier and the clients' constructions of a turn.
ContextEnvs ==
    { e \in [ctor : {"ok", "openai_fail", "jira_fail"},
              llm : {r \in LLMReplies : r.kind \in {"text", "raise"}},
              op : {"ok"}, summ : {"ok"}] : e.ctor # "ok" => e.llm.kind = "text" }

ContextInit ==
    /\ revision \in {"backend", "app"}
    /\ profiles = [u \in Users |-> [exists |-> TRUE, jira_user_id |-> "acct-" \o u]]
    /\ conversation \in Transcripts
    /\ inflight = NoThreads
    /\ last = NoRequest
    /\ rw = RwIdle
    /\ jira = JiraIdle
    /\ scrum \in {[ScrumIdle EXCEPT !.today = 1, !.table = t] :
                     t \in {{}, {[user |-> "u1", date |-> 1, updates |-> <<"h", "i">>]}}}

(***************************************************************************)
(* The chat requests, step by step.  The server handles each request in a   *)
(* thread of its own; every read and every write of the database is a       *)
(* transaction of its own, and between them the handler waits for the       *)
(* completion API and the tracker, so the steps of two requests interleave. *)
(***************************************************************************)
\* The bound on the rows of the Conversation table: a request or a greeting
\* is taken on while the table, as it then is, has room for two more rows.
Room == Len(conversation) + 2 <= MaxRows

\* The environment recorded for a request refused on its message or profile,
\* which consults none: the clients would have been built, the LLM would have
\* answered a text or one structured call.
RejectEnvs ==
    { e \in Envs : /\ e.ctor = "ok" /\ e.op = "ok" /\ e.summ = "ok"
                   /\ \/ e.llm.kind = "text"
                      \/ e.llm.kind = "call" /\ e.llm.name = "get_all_statuses" }

\* The environments of the requests of a thread: everything for the first
\* thread; for the second, which overlaps it, the clients are built and the
\* LLM fails or answers a text.
ThreadEnvs(t) ==
    IF t = "t1" THEN Envs
    ELSE { e \in Envs : /\ e.ctor = "ok" /\ e.op = "ok" /\ e.summ = "ok"
                        /\ e.llm.kind \in {"text", "raise"} }

\* The same for the requests that may collect a scrum update: of the
\* structured calls the first thread is answered the list of statuses.
ScrumChatEnvs(t) ==
    { e \in ThreadEnvs(t) : e.llm.kind = "call" => e.llm.name = "get_all_statuses" }

\* What the classifier of a request is given: the context the view builds
\* from the rows it read, and the messages the classifier sends to the LLM.
ClassifierInput(rev, req, profile) ==
    LET context == IF rev = "backend"
                   THEN Backend_conversation_history(req.history, req.user)
                   ELSE App_formatted_history(req.history, req.user, req.found)
    IN  [context |-> context,
         messages |-> IF rev = "backend"
                      THEN Backend_messages(req.message, context, profile.jira_user_id)
                      ELSE App_messages(req.message, context)]

\* The handler of thread t returns the response of the turn.
Answer(t, rev, req, env, turn) ==
    /\ \E given \in {IF turn.llm_calls = 0 THEN [context |-> <<>>, messages |-> <<>>]
                     ELSE ClassifierInput(rev, req, profiles[req.user])} :
          last' = [rev |-> rev, user |-> req.user, message |-> req.message,
                   profile |-> profiles[req.user], env |-> env,
                   before |-> req.before, history |-> req.history,
                   found |-> req.found, turn |-> turn,
                   classified |-> turn.llm_calls > 0,
                   context |-> given.context, messages |-> given.messages]
    /\ inflight' = [inflight EXCEPT ![t] = ThreadIdle]

\* backend ChatView.post, lines 50-60: a request without a message or of a
\* user without a profile is answered at once; otherwise the inbound row is
\* stored.
BackendReceive(t, envs) ==
    /\ revision = "backend"
    /\ inflight[t].stage = "idle"
    /\ \E u \in Users, message \in Messages :
          \E req \in {InFlight("stored", u, message, conversation, <<>>, FALSE)} :
             IF Falsy(message) \/ ~profiles[u].exists
             THEN /\ \E env \in envs :
                        Answer(t, "backend", req, env,
                               Backend_ChatView_post(u, message, profiles[u], env))
                  /\ conversation' = conversation
             ELSE /\ conversation' = Append(conversation, Row(u, message, TRUE))
                  /\ inflight' = [inflight EXCEPT ![t] = req]
                  /\ last' = last
    /\ UNCHANGED <<revision, profiles, rw, scrum, jira>>

\* backend ChatView.post, lines 62-65: the history is read.
BackendRead(t) ==
    /\ revision = "backend"
    /\ inflight[t].stage = "stored"
    /\ inflight' = [inflight EXCEPT ![t].stage = "read", ![t].history = conversation]
    /\ UNCHANGED <<revision, profiles, conversation, last, rw, scrum, jira>>

\* backend ChatView.post, lines 67-132: the clients are built, the classifier
\* and the operation it names are called, the outbound row is stored and
\* the response returned.
BackendReply(t, envs) ==
    /\ revision = "backend"
    /\ inflight[t].stage = "read"
    /\ \E req \in {inflight[t]}, env \in envs :
          \E turn \in {Backend_ChatView_post(req.user, req.message,
                                             profiles[req.user], env)} :
             /\ conversation' = conversation \o Tail(turn.rows)
             /\ Answer(t, "backend", req, env, turn)
    /\ UNCHANGED <<revision, profiles, rw, scrum, jira>>

\* The completion of the greeting and the fallback of the view.
GreetingCompletion == "1. Check your issues."

GreetingFallback ==
    "\n\nHere are a few things you can try:\n1. Check the status of your assigned Jira issues.\n2. Add a comment to a Jira issue.\n3. Update the status of a Jira issue."

\* The display name the tracker holds for an account.
DisplayName(jira_user_id) == "User " \o jira_user_id

\* The greeting InitialGreetingView.get composes: the tracker's display name
\* when the user is linked and the lookup succeeds, the username otherwise,
\* then the completion, or the fallback list when the completion fails.
InitialGreeting(u, profile, lookup, completion) ==
    LET jira_user_id == IF profile.exists THEN profile.jira_user_id ELSE None
        base_greeting == IF ~Falsy(jira_user_id) /\ lookup = "ok"
                         THEN "Hi " \o DisplayName(jira_user_id) \o "! "
                         ELSE "Hi " \o u \o "! "
    IN  base_greeting
            \o (IF completion = "ok" THEN GreetingCompletion ELSE GreetingFallback)

\* The greetings one behaviour stores.
MaxGreetings == 1

GreetingRows ==
    { Row(u, InitialGreeting(u, p, lookup, completion), FALSE) :
        u \in Users, p \in UNION {ProfileStates(v) : v \in Users},
        lookup \in {"ok", "fail"}, completion \in {"ok", "fail"} }

\* backend InitialGreetingView.get: when both clients are built, the greeting
\* is stored as an assistant row of the user.
Greeting ==
    /\ revision = "backend"
    /\ Len(SelectSeq(conversation, LAMBDA r : r \in GreetingRows)) < MaxGreetings
    /\ \E u \in Users, ctor \in {"ok", "openai_fail", "jira_fail"},
          lookup \in {"ok", "fail"}, completion \in {"ok", "fail"} :
          conversation' =
              IF ctor = "ok"
              THEN Append(conversation,
                          Row(u, InitialGreeting(u, profiles[u], lookup, completion),
                              FALSE))
              ELSE conversation
    /\ UNCHANGED <<revision, profiles, inflight, last, rw, scrum, jira>>

\* app ChatView.post, lines 56-76: a request without a message, of a user
\* without a profile or a jira_user_id, or for which a client cannot be
\* built, is answered at once.
AppReceive(t, envs) ==
    /\ revision = "app"
    /\ inflight[t].stage = "idle"
    /\ \E u \in Users, message \in Messages :
          \E req \in {InFlight("accepted", u, message, conversation, <<>>, FALSE)} :
             \/ /\ Falsy(message) \/ NoTrackerIdentity(profiles[u])
                /\ \E env \in RejectEnvs :
                      Answer(t, "app", req, env,
                             App_ChatView_post(u, message, profiles[u], env))
             \/ /\ ~(Falsy(message) \/ NoTrackerIdentity(profiles[u]))
                /\ \E env \in {e \in envs : e.ctor # "ok"} :
                      Answer(t, "app", req, env,
                             App_ChatView_post(u, message, profiles[u], env))
             \/ /\ ~(Falsy(message) \/ NoTrackerIdentity(profiles[u]))
                /\ inflight' = [inflight EXCEPT ![t] = req]
                /\ last' = last
    /\ UNCHANGED <<revision, profiles, conversation, rw, scrum, jira>>

\* app ChatView.post, line 79: the scrum update of today is looked up.
AppReadScrum(t) ==
    /\ revision = "app"
    /\ inflight[t].stage = "accepted"
    /\ inflight' = [inflight EXCEPT
                       ![t].stage = "scrum_read",
                       ![t].found = get_scrum_update_found(scrum.table,
                                                           inflight[t].user,
                                                           scrum.today)]
    /\ UNCHANGED <<revision, profiles, conversation, last, rw, scrum, jira>>

\* app ChatView.post, lines 82-84: the history is read.
AppReadHistory(t) ==
    /\ revision = "app"
    /\ inflight[t].stage = "scrum_read"
    /\ inflight' = [inflight EXCEPT ![t].stage = "read",
                                    ![t].before = conversation,
                                    ![t].history = conversation]
    /\ UNCHANGED <<revision, profiles, conversation, last, rw, scrum, jira>>

\* app ChatView.post, lines 116-126: the classifier is called; when it
\* raises the request is answered, otherwise the inbound row is stored.
AppClassify(t, envs) ==
    /\ revision = "app"
    /\ inflight[t].stage = "read"
    /\ \E req \in {inflight[t]} :
          \/ /\ \E env \in {e \in envs : e.ctor = "ok"} :
                   \E turn \in {App_ChatView_post(req.user, req.message,
                                                  profiles[req.user], env)} :
                      /\ turn.rows = <<>>
                      /\ Answer(t, "app", req, env, turn)
             /\ conversation' = conversation
          \/ /\ conversation' = Append(conversation, Row(req.user, req.message, TRUE))
             /\ inflight' = [inflight EXCEPT ![t].stage = "stored"]
             /\ last' = last
    /\ UNCHANGED <<revision, profiles, rw, scrum, jira>>

\* app ChatView.post, lines 129-266: the scrum update is compiled or the
\* operation the classifier named is called, the outbound row is stored and
\* the response returned.
AppReply(t, envs) ==
    /\ revision = "app"
    /\ inflight[t].stage = "stored"
    /\ \E req \in {inflight[t]}, env \in {e \in envs : e.ctor = "ok"} :
          \E r \in App_ChatView_post_scrum(req.user, req.message, profiles[req.user],
                                           env, req.history, req.found, scrum.table,
                                           scrum.table, scrum.today) :
             /\ r.turn.rows # <<>>
             /\ conversation' = conversation \o Tail(r.turn.rows)
             /\ scrum' = [scrum EXCEPT !.table = r.table, !.notified = @ \o r.notified]
             /\ Answer(t, "app", req, env, r.turn)
    /\ UNCHANGED <<revision, profiles, rw, jira>>

Next ==
    \/ Room /\ Greeting
    \/ \E t \in Threads :
          \/ Room /\ BackendReceive(t, RejectEnvs)
          \/ BackendRead(t)
          \/ BackendReply(t, ThreadEnvs(t))
          \/ Room /\ AppReceive(t, ThreadEnvs(t))
          \/ AppReadScrum(t)
          \/ AppReadHistory(t)
          \/ AppClassify(t, ThreadEnvs(t))
          \/ AppReply(t, ThreadEnvs(t))

Spec == Init /\ [][Next]_vars

\* The requests of the app revision that start before the first is answered.
ScrumChatNext ==
    \E t \in Threads :
       \/ last.rev = None /\ AppReceive(t, ScrumChatEnvs(t))
       \/ AppReadScrum(t)
       \/ AppReadHistory(t)
       \/ AppClassify(t, ScrumChatEnvs(t))
       \/ AppReply(t, ScrumChatEnvs(t))

ScrumChatSpec == ScrumChatInit /\ [][ScrumChatNext]_vars

\* One chat request on a long transcript.
ContextNext ==
    \/ /\ last.rev = None
       /\ \/ BackendReceive("t1", RejectEnvs)
          \/ AppReceive("t1", ContextEnvs)
    \/ BackendRead("t1")
    \/ BackendReply("t1", ContextEnvs)
    \/ AppReadScrum("t1")
    \/ AppReadHistory("t1")
    \/ AppClassify("t1", ContextEnvs)
    \/ AppReply("t1", ContextEnvs)

ContextSpec == ContextInit /\ [][ContextNext]_vars

\* The rows of the calling user the view could load: those stored before the
\* request, with or without the inbound row of the request itself.
OwnRows(inbound) ==
    SelectSeq(IF inbound THEN Append(last.before, Row(last.user, last.message, TRUE))
              ELSE last.before,
              LAMBDA r : r.user = last.user)

\* The sequence is the last rows of mine, at most ten of them, in the order
\* of mine, each with the role of its flag.
IsRecentTail(part, mine) ==
    /\ Len(part) = Min(HistoryLimit, Len(mine))
    /\ \A i \in 1..Len(part) :
          LET row == mine[Len(mine) - Len(part) + i]
          IN  /\ part[i].content = row.message
              /\ part[i].role = IF row.is_user_message THEN "user" ELSE "assistant"

\* C24: the context of a turn is made of at most 10 transcript
\* messages, the most recent ones of the calling user, oldest first, each
\* with role user or assistant according to its flag.
C24_ContextIsRecentOwnMessages ==
    (last.rev # None /\ last.classified)
        => \E inbound \in BOOLEAN : IsRecentTail(last.context, OwnRows(inbound))

\* The most recent rows of mine, at most ten of them, oldest first, as the
\* entries of a context.
RecentTail(mine) ==
    LET n == Min(HistoryLimit, Len(mine))
    IN  [i \in 1..n |-> HistoryEntry(mine[Len(mine) - n + i])]

\* What the views build: the recent rows of the calling user, and in the app
\* revision, for a user without a scrum update for today, the scrum prompt
\* in front of them and the greeting in their place when there is none.
ContextAsBuilt ==
    (last.rev # None /\ last.classified)
        => LET part == RecentTail(OwnRows(last.rev = "backend"))
               prompted == last.rev = "app" /\ ~last.found
           IN  last.context =
                   (IF prompted THEN <<scrum_context>> ELSE <<>>) \o part
                       \o (IF prompted /\ part = <<>> THEN <<scrum_greeting>> ELSE <<>>)

(***************************************************************************)
(* Properties of the classifier's result in a chat turn                     *)
(***************************************************************************)
\* The category of each operation, as the envelope names it.
Category ==
    [get_user_issues |-> "issue_list", get_issue |-> "issue",
     add_comment_to_issue |-> "comment", update_issue_status |-> "status_update",
     create_issue |-> "new_issue", get_all_statuses |-> "status_list",
     search_users |-> "user_list"]

\* The structured call of the turn succeeded: the classifier named an
\* operation and the operation returned.
StructuredCallSucceeded(turn) ==
    turn.intent.kind = "function" /\ turn.op_result = "ok"

\* C25: in the backend revision, a turn whose classifier result is a text
\* reply answers an envelope of type text whose content is the reply; a turn
\* whose structured call succeeds answers an envelope whose type is the
\* category of the named operation, and has invoked exactly that operation,
\* exactly once.
C25_EnvelopeTypeFollowsClassifier ==
    last.rev = "backend"
        => /\ last.turn.intent.kind = "response"
                 => /\ last.turn.status_code = HTTP_200_OK
                    /\ last.turn.body.type = "text"
                    /\ last.turn.body.content = last.turn.intent.response
           /\ StructuredCallSucceeded(last.turn)
                 => /\ last.turn.status_code = HTTP_200_OK
                    /\ last.turn.intent.function_name \in DOMAIN Category
                    /\ last.turn.body.type = Category[last.turn.intent.function_name]
                    /\ Len(last.turn.jira_calls) = 1
                    /\ last.turn.jira_calls[1].name = last.turn.intent.function_name

\* The classifier was called in the turn and the LLM answered a structured
\* call whose arguments do not parse.
UnparseableCall ==
    /\ last.rev # None /\ last.turn.llm_calls > 0
    /\ last.env.llm.kind = "call" /\ ~last.env.llm.parses

\* C26: when the LLM answers a structured call whose arguments cannot be
\* parsed, get_intent_and_parameters returns a text reply instead of raising:
\* the turn answers 200 as a text turn, with the inbound and the outbound
\* message persisted, and no tracker operation is invoked; in the backend
\* revision and in the app revision alike.
C26_UnparseableArgumentsDegradeToText ==
    UnparseableCall
        => /\ last.turn.intent.kind = "response"
           /\ last.turn.status_code = HTTP_200_OK
           /\ Len(last.turn.rows) = 2
           /\ last.turn.jira_calls = <<>>

\* The classifier was called in the turn and failed.
ClassifierFailed == last.rev # None /\ last.turn.intent.kind = "raised"

\* C27: a turn in which the classifier fails leaves the inbound message in
\* the user's transcript, as the only message the turn persisted; in the
\* backend revision and in the app revision alike.
C27_InboundPersistedBeforeClassifier ==
    ClassifierFailed
        => /\ last.turn.rows = <<Row(last.user, last.message, TRUE)>>
           /\ StoredInOrder(last.turn.rows, UserRows(conversation, last.user))

(***************************************************************************)
(* The retry-wrapped operations of the backend classifier                   *)
(***************************************************************************)
\* The completion calls one behaviour scripts.
MaxReplies == 3
\* What the LLM does on one completion call: it fails, answers a text, or
\* answers a structured call whose arguments parse or do not.
CompletionReplies ==
    { r \in LLMReplies : r.kind \in {"raise", "text"} \/ r.name = "get_issue" }
ReplyScripts == UNION { [1..n -> CompletionReplies] : n \in 1..MaxReplies }

ClassifierInit ==
    /\ revision = "backend"
    /\ profiles = [u \in Users |-> None]
    /\ conversation = <<>>
    /\ inflight = NoThreads
    /\ last = NoRequest
    /\ jira = JiraIdle
    /\ scrum = ScrumIdle
    /\ rw \in [state : {"called"}, wrapper : {"api_utils"},
               op : {"get_intent_and_parameters", "summarize_text"},
               replies : ReplyScripts]

\* The decorated method is called; the LLM answers its completion calls as
\* scripted, one reply per call.
ClassifierCall ==
    /\ rw.state = "called"
    /\ \E r \in {IF rw.op = "get_intent_and_parameters"
                 THEN LET c == Backend_get_intent_and_parameters(rw.replies)
                      IN  [run |-> c.run, value |-> c.intent]
                 ELSE LET c == Backend_summarize_text(rw.replies)
                      IN  [run |-> c.run, value |-> [NoIntent EXCEPT !.response = c.summary]]} :
          rw' = [state |-> "done", wrapper |-> rw.wrapper, op |-> rw.op,
                 replies |-> rw.replies, run |-> r.run, value |-> r.value]
    /\ UNCHANGED <<revision, profiles, conversation, inflight, last, scrum, jira>>

ClassifierNext == ClassifierCall

ClassifierSpec == ClassifierInit /\ [][ClassifierNext]_vars

\* The first completion call fails and the second would succeed.
FailsOnceThenAnswers ==
    /\ rw.state = "done"
    /\ Len(rw.replies) >= 2
    /\ rw.replies[1].kind = "raise"
    /\ rw.replies[2].kind # "raise"

\* C28: when the completion call of get_intent_and_parameters or of
\* summarize_text fails on the first attempt and would succeed on the next,
\* the completion call is made a second time and the operation returns the
\* value of the successful call.
C28_TransientFailureIsRetried ==
    FailsOnceThenAnswers
        => /\ rw.run.ended = "returned"
           /\ rw.run.calls = 2
           /\ rw.value =
                  IF rw.op = "summarize_text"
                  THEN [NoIntent EXCEPT !.response = rw.replies[2].content]
                  ELSE Backend_intent_body(rw.replies[2]).value

\* The positions of the message list sent to the LLM that hold the current
\* user message.
CurrentMessageAt ==
    {i \in 1..Len(last.messages) :
        last.messages[i] = [role |-> "user", content |-> last.message]}

\* C29: in the message list sent to the LLM for a chat turn, the current
\* user message appears exactly once, as the last message; the history
\* loaded from the transcript does not hold it as well.  The transcripts
\* hold no earlier message of the same text.
C29_CurrentMessageSentOnce ==
    (last.rev # None /\ last.classified)
        => CurrentMessageAt = {Len(last.messages)}

====
